---- MODULE Spec2Model ----
(***************************************************************************)
(* FleetLink backend: vehicles, bookings and the requests that read and    *)
(* write them.  The store (MongoDB collections Vehicle and Booking) is the *)
(* only shared state; every `await` of a controller is one store operation *)
(* and therefore one step, so requests interleave at their awaits.         *)
(*                                                                         *)
(* Time is counted in whole hours (`now` is the server clock, new Date()); *)
(* one hour is the 60 * 60 * 1000 ms of the controllers.  A document id is *)
(* the position of the document in its collection (insertion order).       *)
(* A pincode is the sequence of its characters: a digit 0..9, or NonDigit  *)
(* for any other character.  req[p] is the request served on connection p; *)
(* its response stays there until the next request of that connection.     *)
(***************************************************************************)
EXTENDS Integers, Sequences, FiniteSets, TLC

VARIABLES vehicles, bookings, now, req

vars == <<vehicles, bookings, now, req>>

(***************************************************************************)
(* Bounds of the model.                                                    *)
(***************************************************************************)
NumProcs == 2
MaxVehicles == 1
MaxBookings == 2
MaxTime == 1
SeqMaxVehicles == 2
SeqMaxBookings == 2
SeqMaxTime == 1
OverlapMaxTime == 4
ExcludeMaxTime == 3
CancelMaxTime == 3
CostMaxVehicles == 2
CostMaxBookings == 2
DurationRange == 25
SearchMaxVehicles == 3
LiveMaxBookings == 2
LiveMaxTime == 1
SerialMaxBookings == 3
SerialMaxTime == 1
RebookMaxBookings == 2
RebookMaxTime == 1
AgreeMaxVehicles == 2
AgreeMaxTime == 2
FrameMaxBookings == 2
PairMaxTime == 1

Procs == 1..NumProcs

(***************************************************************************)
(* Input domains of the requests.                                          *)
(***************************************************************************)
NonDigit == 0 - 1
NaN == 0 - 1
\* The decimal point of a numeral.
Dot == 0 - 2

PinA == <<1, 1, 0, 0, 0, 1>>
PinB == <<1, 1, 0, 0, 0, 3>>
PinShort == <<1, 1, 0, 0, 1>>

FromPincodes == {PinA}
ToPincodes == {PinB, PinShort}
CustomerIds == {"CUST001"}
Capacities == {5000}
StartTimes == 1..(MaxTime + 1)

\* capacityRequired as it is written in the query string.
Cap1000 == <<1, 0, 0, 0>>
Cap1000Half == <<1, 0, 0, 0, Dot, 5>>
Cap5000 == <<5, 0, 0, 0>>
Cap5000Half == <<5, 0, 0, 0, Dot, 5>>
CapZero == <<0>>

SeqToPincodes == {PinA, PinB, PinShort}
SeqStartTimes == 1..(SeqMaxTime + 1)

\* An id that matches no document (also: no id given).
UnknownId == 0

VehicleStatuses == {"active", "maintenance", "retired"}
validStatuses == {"confirmed", "in-progress", "completed", "cancelled"}
VehicleStatusInputs == VehicleStatuses \cup {"sold"}
BookingStatusInputs == validStatuses \cup {"pending"}

(***************************************************************************)
(* utils/helpers.js                                                        *)
(***************************************************************************)
Abs(x) == IF x < 0 THEN 0 - x ELSE x

Max(a, b) == IF a >= b THEN a ELSE b

IsDigit(c) == c \in 0..9

\* Number of leading digit characters of s.
RECURSIVE DigitPrefixLen(_)
DigitPrefixLen(s) ==
  IF s = <<>> \/ ~IsDigit(Head(s)) THEN 0 ELSE 1 + DigitPrefixLen(Tail(s))

RECURSIVE DigitsValue(_, _)
DigitsValue(s, n) ==
  IF n = 0 THEN 0 ELSE 10 * DigitsValue(s, n - 1) + s[n]

\* parseInt: the value of the longest digit prefix, NaN when there is none.
parseInt(s) ==
  IF DigitPrefixLen(s) = 0 THEN NaN ELSE DigitsValue(s, DigitPrefixLen(s))

\* Mutant: the difference is taken without Math.abs.
calculateRideDuration_NoAbs(fromPincode, toPincode) ==
  LET from == parseInt(fromPincode)
      to == parseInt(toPincode)
  IN IF from = NaN \/ to = NaN
       THEN 2
       ELSE Max((from - to) % 24, 1)

\* Mutant: NaN is not caught, and comes out of the arithmetic.
calculateRideDuration_NoFallback(fromPincode, toPincode) ==
  LET from == parseInt(fromPincode)
      to == parseInt(toPincode)
  IN IF from = NaN \/ to = NaN
       THEN NaN
       ELSE Max(Abs(from - to) % 24, 1)

\* Mutant: the minimum of one hour is missing.
calculateRideDuration_NoMinimum(fromPincode, toPincode) ==
  LET from == parseInt(fromPincode)
      to == parseInt(toPincode)
  IN IF from = NaN \/ to = NaN
       THEN 2
       ELSE Abs(from - to) % 24

calculateRideDuration(fromPincode, toPincode) ==
  LET from == parseInt(fromPincode)
      to == parseInt(toPincode)
  IN IF from = NaN \/ to = NaN
       THEN 2
       ELSE Max(Abs(from - to) % 24, 1)

\* Math.round(x) for x = num / den >= 0.
RoundDiv(num, den) == (2 * num + den) \div (2 * den)

\* Mutant: the two multipliers are not floored at 1.
calculateBookingCost_NoFloor(durationHours, capacityKg, fromPincode, toPincode) ==
  LET baseRatePerHour == 500
      distance == Abs(parseInt(toPincode) - parseInt(fromPincode))
  IN RoundDiv((baseRatePerHour \div 100) * durationHours * capacityKg * distance, 10)

\* The cost in hundredths of a unit, Math.round(totalCost * 100), where
\* totalCost * 100 = baseRatePerHour * durationHours * (capNum / 1000)
\*                   * (distNum / 100) * 100
\*                 = (baseRatePerHour / 100) * durationHours * capNum * distNum / 10.
calculateBookingCost(durationHours, capacityKg, fromPincode, toPincode) ==
  LET baseRatePerHour == 500
      capNum == IF capacityKg >= 1000 THEN capacityKg ELSE 1000
      distance == Abs(parseInt(toPincode) - parseInt(fromPincode))
      distNum == IF distance >= 100 THEN distance ELSE 100
  IN RoundDiv((baseRatePerHour \div 100) * durationHours * capNum * distNum, 10)

(***************************************************************************)
(* middleware/validation.js: the Joi schema of POST /api/bookings.         *)
(***************************************************************************)
PincodePattern(p) == Len(p) = 6 /\ \A i \in 1..Len(p) : IsDigit(p[i])

validateBooking(fromPincode, toPincode, startTime) ==
  /\ PincodePattern(fromPincode)
  /\ PincodePattern(toPincode)
  /\ startTime >= now

\* Joi.number() with convert: the string is a decimal numeral, digits with an
\* optional fraction, or a fraction alone.
AllDigits(s) == \A i \in 1..Len(s) : IsDigit(s[i])

NumberBase(s) ==
  LET n == DigitPrefixLen(s)
      rest == SubSeq(s, n + 1, Len(s))
  IN \/ n >= 1 /\ rest = <<>>
     \/ n >= 1 /\ rest # <<>> /\ Head(rest) = Dot /\ AllDigits(Tail(rest))
     \/ n = 0 /\ Len(rest) >= 2 /\ Head(rest) = Dot /\ AllDigits(Tail(rest))

\* The integer part of the number a numeral converts to.
WholePart(s) == DigitsValue(s, DigitPrefixLen(s))

\* The number has a non-zero fraction.
HasFraction(s) ==
  \E i \in (DigitPrefixLen(s) + 2)..Len(s) : s[i] \in 1..9

\* The Joi schema of GET /api/vehicles/available: capacityRequired is a
\* number, positive, at least 1 and at most 50000.
validateAvailability(capacityRequired, fromPincode, toPincode, startTime) ==
  /\ NumberBase(capacityRequired)
  /\ WholePart(capacityRequired) > 0 \/ HasFraction(capacityRequired)
  /\ WholePart(capacityRequired) >= 1
  /\ \/ WholePart(capacityRequired) < 50000
     \/ WholePart(capacityRequired) = 50000 /\ ~HasFraction(capacityRequired)
  /\ PincodePattern(fromPincode)
  /\ PincodePattern(toPincode)
  /\ startTime >= now

(***************************************************************************)
(* models/Booking.js                                                       *)
(***************************************************************************)
\* Mutant: a start at the very instant of the save is let through (>=).
StartTimeValidator_Inclusive(value) == value >= now

\* The validator of bookingSchema.startTime, run by save().
StartTimeValidator(value) == value > now

\* Mutant: the comparisons admit equality (closed windows).
overlapsWithTimeWindow_Closed(b, startTime, endTime) ==
  startTime <= b.endTime /\ endTime >= b.startTime

overlapsWithTimeWindow(b, startTime, endTime) ==
  startTime < b.endTime /\ endTime > b.startTime

\* Mutant: $lte / $gte in place of $lt / $gt (back-to-back windows conflict).
findOverlappingBookings_Closed(vehicleId, startTime, endTime, excludeBookingId) ==
  {i \in 1..Len(bookings) :
     /\ bookings[i].vehicleId = vehicleId
     /\ bookings[i].status \in {"confirmed", "in-progress"}
     /\ bookings[i].startTime <= endTime
     /\ bookings[i].endTime >= startTime
     /\ (excludeBookingId # 0 => i # excludeBookingId)}

\* Mutant: the status filter is missing.
findOverlappingBookings_AnyStatus(vehicleId, startTime, endTime, excludeBookingId) ==
  {i \in 1..Len(bookings) :
     /\ bookings[i].vehicleId = vehicleId
     /\ bookings[i].startTime < endTime
     /\ bookings[i].endTime > startTime
     /\ (excludeBookingId # 0 => i # excludeBookingId)}

\* Mutant: the vehicleId filter is missing.
findOverlappingBookings_AnyVehicle(vehicleId, startTime, endTime, excludeBookingId) ==
  {i \in 1..Len(bookings) :
     /\ bookings[i].status \in {"confirmed", "in-progress"}
     /\ bookings[i].startTime < endTime
     /\ bookings[i].endTime > startTime
     /\ (excludeBookingId # 0 => i # excludeBookingId)}

\* Mutant: excludeBookingId is ignored.
findOverlappingBookings_NoExclude(vehicleId, startTime, endTime, excludeBookingId) ==
  {i \in 1..Len(bookings) :
     /\ bookings[i].vehicleId = vehicleId
     /\ bookings[i].status \in {"confirmed", "in-progress"}
     /\ bookings[i].startTime < endTime
     /\ bookings[i].endTime > startTime}

\* Mutant: only the bookings that start inside the window are matched
\* (startTime: {$gte: startTime, $lt: endTime}).
findOverlappingBookings_StartsInside(vehicleId, startTime, endTime, excludeBookingId) ==
  {i \in 1..Len(bookings) :
     /\ bookings[i].vehicleId = vehicleId
     /\ bookings[i].status \in {"confirmed", "in-progress"}
     /\ bookings[i].startTime >= startTime
     /\ bookings[i].startTime < endTime
     /\ (excludeBookingId # 0 => i # excludeBookingId)}

\* The ids of the documents matched by the query of findOverlappingBookings.
findOverlappingBookings(vehicleId, startTime, endTime, excludeBookingId) ==
  {i \in 1..Len(bookings) :
     /\ bookings[i].vehicleId = vehicleId
     /\ bookings[i].status \in {"confirmed", "in-progress"}
     /\ bookings[i].startTime < endTime
     /\ bookings[i].endTime > startTime
     /\ (excludeBookingId # 0 => i # excludeBookingId)}

(***************************************************************************)
(* Requests.  req[p] is the request being served on connection p.          *)
(***************************************************************************)
NoRequest ==
  [op |-> "none", pc |-> "idle", vehicleId |-> 0, customerId |-> "",
   fromPincode |-> <<>>, toPincode |-> <<>>, startTime |-> 0, endTime |-> 0,
   capacityKg |-> 0, id |-> 0, code |-> 0, error |-> "",
   conflictingBookings |-> 0, capacityRequired |-> <<>>,
   suitableVehicles |-> <<>>, availableVehicles |-> <<>>,
   hoursUntilStart |-> 0, status |-> "", estimatedRideDurationHours |-> 0]

\* res.status(code).json(...): the request is over, its response is kept.
Respond(op, code, error) ==
  [NoRequest EXCEPT !.op = op, !.pc = "done", !.code = code, !.error = error]

Free(p) == req[p].pc \in {"idle", "done"}

VehicleIdInputs == (1..Len(vehicles)) \cup {UnknownId}
BookingIdInputs == (1..Len(bookings)) \cup {UnknownId}

\* estimatedRideDurationHours of the request r.
Duration(r) == calculateRideDuration(r.fromPincode, r.toPincode)

Init ==
  /\ vehicles = <<>>
  /\ bookings = <<>>
  /\ now = 0
  /\ req = [p \in Procs |-> NoRequest]

\* The server clock advances.
Tick ==
  /\ now' = now + 1
  /\ UNCHANGED <<vehicles, bookings, req>>

(***************************************************************************)
(* controllers/vehicleController.js                                        *)
(***************************************************************************)
addVehicle(p, capacityKg) ==
  /\ Free(p)
  /\ vehicles' = Append(vehicles, [capacityKg |-> capacityKg, status |-> "active"])
  /\ req' = [req EXCEPT ![p] =
               [Respond("addVehicle", 201, "") EXCEPT !.id = Len(vehicles) + 1]]
  /\ UNCHANGED <<bookings, now>>

\* Mutant: taking a vehicle out of service cancels its active bookings.
updateVehicleStatus_Cascade(p, id, status) ==
  /\ Free(p)
  /\ IF status \notin {"active", "maintenance", "retired"}
       THEN /\ req' = [req EXCEPT ![p] = Respond("updateVehicleStatus", 400, "InvalidStatus")]
            /\ UNCHANGED <<vehicles, bookings>>
       ELSE IF id \notin 1..Len(vehicles)
         THEN /\ req' = [req EXCEPT ![p] = Respond("updateVehicleStatus", 404, "NotFound")]
              /\ UNCHANGED <<vehicles, bookings>>
         ELSE /\ vehicles' = [vehicles EXCEPT ![id].status = status]
              /\ bookings' =
                   [i \in 1..Len(bookings) |->
                      IF /\ status # "active"
                         /\ bookings[i].vehicleId = id
                         /\ bookings[i].status \in {"confirmed", "in-progress"}
                        THEN [bookings[i] EXCEPT !.status = "cancelled"]
                        ELSE bookings[i]]
              /\ req' = [req EXCEPT ![p] = Respond("updateVehicleStatus", 200, "")]
  /\ UNCHANGED now

\* PATCH /api/vehicles/:id/status: one findByIdAndUpdate.
updateVehicleStatus(p, id, status) ==
  /\ Free(p)
  /\ IF status \notin {"active", "maintenance", "retired"}
       THEN /\ req' = [req EXCEPT ![p] = Respond("updateVehicleStatus", 400, "InvalidStatus")]
            /\ UNCHANGED vehicles
       ELSE IF id \notin 1..Len(vehicles)
         THEN /\ req' = [req EXCEPT ![p] = Respond("updateVehicleStatus", 404, "NotFound")]
              /\ UNCHANGED vehicles
         ELSE /\ vehicles' = [vehicles EXCEPT ![id].status = status]
              /\ req' = [req EXCEPT ![p] = Respond("updateVehicleStatus", 200, "")]
  /\ UNCHANGED <<bookings, now>>

\* Vehicle.find({capacityKg: {$gte: parseInt(capacityRequired)},
\* status: 'active'}): the ids of the documents matched.  capacityRequired is
\* the number Joi converted; parseInt reads the digits of its decimal form up
\* to the decimal point.
SuitableVehicles(capacityRequired) ==
  {v \in 1..Len(vehicles) :
     /\ vehicles[v].capacityKg >= parseInt(capacityRequired)
     /\ vehicles[v].status = "active"}

\* .sort({capacityKg: 1}): the orders the store may return the documents of
\* S in.  Documents with equal capacityKg come in an order the query does
\* not fix.
SortByCapacity(S) ==
  {s \in [1..Cardinality(S) -> S] :
     /\ \A i, j \in 1..Cardinality(S) : i # j => s[i] # s[j]
     /\ \A i, j \in 1..Cardinality(S) :
          i < j => vehicles[s[i]].capacityKg <= vehicles[s[j]].capacityKg}

\* Mutant: the window of the search is one hour long whatever the route.
BeginFindAvailableVehicles_OneHour(p, capacityRequired, fromPincode, toPincode, startTime) ==
  /\ Free(p)
  /\ req' = [req EXCEPT ![p] =
               IF validateAvailability(capacityRequired, fromPincode, toPincode,
                                       startTime)
                 THEN [NoRequest EXCEPT
                         !.op = "findAvailableVehicles",
                         !.pc = "findVehicles",
                         !.capacityRequired = capacityRequired,
                         !.fromPincode = fromPincode,
                         !.toPincode = toPincode,
                         !.startTime = startTime,
                         !.endTime = startTime + 1]
                 ELSE Respond("findAvailableVehicles", 400, "ValidationError")]
  /\ UNCHANGED <<vehicles, bookings, now>>

\* GET /api/vehicles/available arrives: validateAvailability runs, then
\* findAvailableVehicles computes the window and issues Vehicle.find.
BeginFindAvailableVehicles(p, capacityRequired, fromPincode, toPincode, startTime) ==
  /\ Free(p)
  /\ req' = [req EXCEPT ![p] =
               IF validateAvailability(capacityRequired, fromPincode, toPincode,
                                       startTime)
                 THEN [NoRequest EXCEPT
                         !.op = "findAvailableVehicles",
                         !.pc = "findVehicles",
                         !.capacityRequired = capacityRequired,
                         !.fromPincode = fromPincode,
                         !.toPincode = toPincode,
                         !.startTime = startTime,
                         !.endTime = startTime
                                     + calculateRideDuration(fromPincode, toPincode)]
                 ELSE Respond("findAvailableVehicles", 400, "ValidationError")]
  /\ UNCHANGED <<vehicles, bookings, now>>

\* Vehicle.find answers: without suitable vehicle the response is 200 with
\* an empty list, else the conflict query of the first vehicle is issued.
AvailableFindVehicles(p) ==
  /\ req[p].op = "findAvailableVehicles"
  /\ req[p].pc = "findVehicles"
  /\ \E suitableVehicles \in SortByCapacity(SuitableVehicles(req[p].capacityRequired)) :
       req' = [req EXCEPT ![p] =
                 IF Len(suitableVehicles) = 0
                   THEN [req[p] EXCEPT !.pc = "done", !.code = 200]
                   ELSE [req[p] EXCEPT !.pc = "findOverlapping",
                                       !.suitableVehicles = suitableVehicles]]
  /\ UNCHANGED <<vehicles, bookings, now>>

\* Mutant: a vehicle found available is held for the caller (taken out of
\* service in the store).
AvailableFindOverlapping_Holds(p) ==
  /\ req[p].op = "findAvailableVehicles"
  /\ req[p].pc = "findOverlapping"
  /\ LET r == req[p]
         vehicle == Head(r.suitableVehicles)
         overlappingBookings ==
           findOverlappingBookings(vehicle, r.startTime, r.endTime, UnknownId)
         availableVehicles ==
           IF Cardinality(overlappingBookings) = 0
             THEN Append(r.availableVehicles, vehicle)
             ELSE r.availableVehicles
     IN /\ req' = [req EXCEPT ![p] =
                     IF Len(r.suitableVehicles) = 1
                       THEN [r EXCEPT !.pc = "done", !.code = 200,
                                      !.suitableVehicles = <<>>,
                                      !.availableVehicles = availableVehicles]
                       ELSE [r EXCEPT !.suitableVehicles = Tail(r.suitableVehicles),
                                      !.availableVehicles = availableVehicles]]
        /\ vehicles' = IF Cardinality(overlappingBookings) = 0
                         THEN [vehicles EXCEPT ![vehicle].status = "maintenance"]
                         ELSE vehicles
  /\ UNCHANGED <<bookings, now>>

\* Booking.findOverlappingBookings answers for the next suitable vehicle: it
\* is pushed when nothing overlaps; after the last one the response is sent.
AvailableFindOverlapping(p) ==
  /\ req[p].op = "findAvailableVehicles"
  /\ req[p].pc = "findOverlapping"
  /\ LET r == req[p]
         vehicle == Head(r.suitableVehicles)
         overlappingBookings ==
           findOverlappingBookings(vehicle, r.startTime, r.endTime, UnknownId)
         availableVehicles ==
           IF Cardinality(overlappingBookings) = 0
             THEN Append(r.availableVehicles, vehicle)
             ELSE r.availableVehicles
     IN req' = [req EXCEPT ![p] =
                  IF Len(r.suitableVehicles) = 1
                    THEN [r EXCEPT !.pc = "done", !.code = 200,
                                   !.suitableVehicles = <<>>,
                                   !.availableVehicles = availableVehicles]
                    ELSE [r EXCEPT !.suitableVehicles = Tail(r.suitableVehicles),
                                   !.availableVehicles = availableVehicles]]
  /\ UNCHANGED <<vehicles, bookings, now>>

(***************************************************************************)
(* controllers/bookingController.js                                        *)
(***************************************************************************)
\* POST /api/bookings arrives: validateBooking runs, then createBooking
\* issues Vehicle.findById.
BeginCreateBooking(p, vehicleId, customerId, fromPincode, toPincode, startTime) ==
  /\ Free(p)
  /\ req' = [req EXCEPT ![p] =
               IF validateBooking(fromPincode, toPincode, startTime)
                 THEN [NoRequest EXCEPT !.op = "createBooking",
                                        !.pc = "findVehicle",
                                        !.vehicleId = vehicleId,
                                        !.customerId = customerId,
                                        !.fromPincode = fromPincode,
                                        !.toPincode = toPincode,
                                        !.startTime = startTime]
                 ELSE Respond("createBooking", 400, "ValidationError")]
  /\ UNCHANGED <<vehicles, bookings, now>>

\* Mutant: the status of the vehicle is not checked.
CreateFindVehicle_NoStatusCheck(p) ==
  /\ req[p].op = "createBooking"
  /\ req[p].pc = "findVehicle"
  /\ LET r == req[p]
     IN req' = [req EXCEPT ![p] =
                  IF r.vehicleId \notin 1..Len(vehicles)
                    THEN Respond("createBooking", 404, "NotFound")
                    ELSE [r EXCEPT !.pc = "findOverlapping",
                                   !.endTime = r.startTime + Duration(r),
                                   !.capacityKg = vehicles[r.vehicleId].capacityKg]]
  /\ UNCHANGED <<vehicles, bookings, now>>

\* Vehicle.findById answers; on an active vehicle the conflict query is issued.
CreateFindVehicle(p) ==
  /\ req[p].op = "createBooking"
  /\ req[p].pc = "findVehicle"
  /\ LET r == req[p]
     IN req' = [req EXCEPT ![p] =
                  IF r.vehicleId \notin 1..Len(vehicles)
                    THEN Respond("createBooking", 404, "NotFound")
                    ELSE IF vehicles[r.vehicleId].status # "active"
                      THEN Respond("createBooking", 400, "NotAvailable")
                      ELSE [r EXCEPT !.pc = "findOverlapping",
                                     !.endTime = r.startTime + Duration(r),
                                     !.capacityKg = vehicles[r.vehicleId].capacityKg]]
  /\ UNCHANGED <<vehicles, bookings, now>>

\* Mutant: the conflict check is not run again, the request goes on to save.
CreateFindOverlapping_NoRecheck(p) ==
  /\ req[p].op = "createBooking"
  /\ req[p].pc = "findOverlapping"
  /\ req' = [req EXCEPT ![p] = [req[p] EXCEPT !.pc = "save"]]
  /\ UNCHANGED <<vehicles, bookings, now>>

\* Mutant: a single conflicting booking is let through (length > 1).
CreateFindOverlapping_OffByOne(p) ==
  /\ req[p].op = "createBooking"
  /\ req[p].pc = "findOverlapping"
  /\ LET r == req[p]
         overlappingBookings ==
           findOverlappingBookings(r.vehicleId, r.startTime, r.endTime, UnknownId)
     IN req' = [req EXCEPT ![p] =
                  IF Cardinality(overlappingBookings) > 1
                    THEN [Respond("createBooking", 409, "Conflict") EXCEPT
                            !.conflictingBookings = Cardinality(overlappingBookings)]
                    ELSE [r EXCEPT !.pc = "save"]]
  /\ UNCHANGED <<vehicles, bookings, now>>

\* Mutant: on a conflict the request does not answer; it keeps its place and
\* runs the conflict query again until the window is free.
CreateFindOverlapping_Retry(p) ==
  /\ req[p].op = "createBooking"
  /\ req[p].pc = "findOverlapping"
  /\ LET r == req[p]
         overlappingBookings ==
           findOverlappingBookings(r.vehicleId, r.startTime, r.endTime, UnknownId)
     IN req' = [req EXCEPT ![p] =
                  IF Cardinality(overlappingBookings) > 0
                    THEN r
                    ELSE [r EXCEPT !.pc = "save"]]
  /\ UNCHANGED <<vehicles, bookings, now>>

\* Mutant: a vehicle is held by the request that asked for it first; while
\* another createBooking request for the vehicle is in flight, the answer is
\* Conflict whatever the windows.
CreateFindOverlapping_VehicleBusy(p) ==
  /\ req[p].op = "createBooking"
  /\ req[p].pc = "findOverlapping"
  /\ LET r == req[p]
         overlappingBookings ==
           findOverlappingBookings(r.vehicleId, r.startTime, r.endTime, UnknownId)
         busy == \E q \in Procs :
                   /\ q # p
                   /\ req[q].op = "createBooking"
                   /\ req[q].pc \in {"findOverlapping", "save"}
                   /\ req[q].vehicleId = r.vehicleId
     IN req' = [req EXCEPT ![p] =
                  IF Cardinality(overlappingBookings) > 0 \/ busy
                    THEN [Respond("createBooking", 409, "Conflict") EXCEPT
                            !.conflictingBookings = Cardinality(overlappingBookings)]
                    ELSE [r EXCEPT !.pc = "save"]]
  /\ UNCHANGED <<vehicles, bookings, now>>

\* Booking.findOverlappingBookings answers; without conflict save() is issued.
CreateFindOverlapping(p) ==
  /\ req[p].op = "createBooking"
  /\ req[p].pc = "findOverlapping"
  /\ LET r == req[p]
         overlappingBookings ==
           findOverlappingBookings(r.vehicleId, r.startTime, r.endTime, UnknownId)
     IN req' = [req EXCEPT ![p] =
                  IF Cardinality(overlappingBookings) > 0
                    THEN [Respond("createBooking", 409, "Conflict") EXCEPT
                            !.conflictingBookings = Cardinality(overlappingBookings)]
                    ELSE [r EXCEPT !.pc = "save"]]
  /\ UNCHANGED <<vehicles, bookings, now>>

\* Mutant: endTime is the start time, the duration is not added.
NewBooking_NoDuration(r) ==
  [vehicleId |-> r.vehicleId,
   customerId |-> r.customerId,
   fromPincode |-> r.fromPincode,
   toPincode |-> r.toPincode,
   startTime |-> r.startTime,
   endTime |-> r.startTime,
   estimatedRideDurationHours |-> Duration(r),
   totalCost |-> calculateBookingCost(Duration(r), r.capacityKg,
                                      r.fromPincode, r.toPincode),
   status |-> "confirmed"]

\* The document createBooking builds.
NewBooking(r) ==
  [vehicleId |-> r.vehicleId,
   customerId |-> r.customerId,
   fromPincode |-> r.fromPincode,
   toPincode |-> r.toPincode,
   startTime |-> r.startTime,
   endTime |-> r.endTime,
   estimatedRideDurationHours |-> Duration(r),
   totalCost |-> calculateBookingCost(Duration(r), r.capacityKg,
                                      r.fromPincode, r.toPincode),
   status |-> "confirmed"]

\* Mutant: the document is inserted before the validators run.
CreateSave_InsertsFirst(p) ==
  /\ req[p].op = "createBooking"
  /\ req[p].pc = "save"
  /\ bookings' = Append(bookings, NewBooking(req[p]))
  /\ req' = [req EXCEPT ![p] =
               IF StartTimeValidator(req[p].startTime)
                 THEN [Respond("createBooking", 201, "") EXCEPT
                         !.id = Len(bookings) + 1]
                 ELSE Respond("createBooking", 400, "ValidationError")]
  /\ UNCHANGED <<vehicles, now>>

\* booking.save(): the schema validators run, then the document is inserted.
CreateSave(p) ==
  /\ req[p].op = "createBooking"
  /\ req[p].pc = "save"
  /\ IF StartTimeValidator(req[p].startTime)
       THEN /\ bookings' = Append(bookings, NewBooking(req[p]))
            /\ req' = [req EXCEPT ![p] =
                         [Respond("createBooking", 201, "") EXCEPT
                            !.id = Len(bookings) + 1]]
       ELSE /\ req' = [req EXCEPT ![p] = Respond("createBooking", 400, "ValidationError")]
            /\ UNCHANGED bookings
  /\ UNCHANGED <<vehicles, now>>

\* Mutant: only the transitions of the state machine are written, any other
\* leaves the booking as it is.
updateBookingStatus_Guarded(p, id, status) ==
  /\ Free(p)
  /\ LET r == [NoRequest EXCEPT !.op = "updateBookingStatus", !.pc = "done",
                                !.id = id, !.status = status]
     IN IF status \notin validStatuses
          THEN /\ req' = [req EXCEPT ![p] =
                            [r EXCEPT !.code = 400, !.error = "InvalidStatus"]]
               /\ UNCHANGED bookings
          ELSE IF id \notin 1..Len(bookings)
            THEN /\ req' = [req EXCEPT ![p] =
                              [r EXCEPT !.code = 404, !.error = "NotFound"]]
                 /\ UNCHANGED bookings
            ELSE /\ bookings' =
                      IF <<bookings[id].status, status>> \in
                           {<<"confirmed", "in-progress">>,
                            <<"in-progress", "completed">>,
                            <<"confirmed", "cancelled">>}
                        THEN [bookings EXCEPT ![id].status = status]
                        ELSE bookings
                 /\ req' = [req EXCEPT ![p] = [r EXCEPT !.code = 200]]
  /\ UNCHANGED <<vehicles, now>>

\* Mutant: the status is written with updateMany on the vehicle of the
\* booking, to every booking of that vehicle.
updateBookingStatus_UpdateMany(p, id, status) ==
  /\ Free(p)
  /\ LET r == [NoRequest EXCEPT !.op = "updateBookingStatus", !.pc = "done",
                                !.id = id, !.status = status]
     IN IF status \notin validStatuses
          THEN /\ req' = [req EXCEPT ![p] =
                            [r EXCEPT !.code = 400, !.error = "InvalidStatus"]]
               /\ UNCHANGED bookings
          ELSE IF id \notin 1..Len(bookings)
            THEN /\ req' = [req EXCEPT ![p] =
                              [r EXCEPT !.code = 404, !.error = "NotFound"]]
                 /\ UNCHANGED bookings
            ELSE /\ bookings' =
                      [i \in 1..Len(bookings) |->
                         IF bookings[i].vehicleId = bookings[id].vehicleId
                           THEN [bookings[i] EXCEPT !.status = status]
                           ELSE bookings[i]]
                 /\ req' = [req EXCEPT ![p] = [r EXCEPT !.code = 200]]
  /\ UNCHANGED <<vehicles, now>>

\* Mutant: before a reservation is made active again, the conflict query is
\* run for its window, excluding itself; on a conflict the answer is 409.
updateBookingStatus_ConflictChecked(p, id, status) ==
  /\ Free(p)
  /\ LET r == [NoRequest EXCEPT !.op = "updateBookingStatus", !.pc = "done",
                                !.id = id, !.status = status]
     IN IF status \notin validStatuses
          THEN /\ req' = [req EXCEPT ![p] =
                            [r EXCEPT !.code = 400, !.error = "InvalidStatus"]]
               /\ UNCHANGED bookings
          ELSE IF id \notin 1..Len(bookings)
            THEN /\ req' = [req EXCEPT ![p] =
                              [r EXCEPT !.code = 404, !.error = "NotFound"]]
                 /\ UNCHANGED bookings
            ELSE IF /\ status \in {"confirmed", "in-progress"}
                    /\ findOverlappingBookings(bookings[id].vehicleId,
                                               bookings[id].startTime,
                                               bookings[id].endTime, id) # {}
              THEN /\ req' = [req EXCEPT ![p] =
                                [r EXCEPT !.code = 409, !.error = "Conflict"]]
                   /\ UNCHANGED bookings
              ELSE /\ bookings' = [bookings EXCEPT ![id].status = status]
                   /\ req' = [req EXCEPT ![p] = [r EXCEPT !.code = 200]]
  /\ UNCHANGED <<vehicles, now>>

\* PATCH /api/bookings/:id/status: one findByIdAndUpdate.  The request keeps
\* its id and status.
updateBookingStatus(p, id, status) ==
  /\ Free(p)
  /\ LET r == [NoRequest EXCEPT !.op = "updateBookingStatus", !.pc = "done",
                                !.id = id, !.status = status]
     IN IF status \notin validStatuses
          THEN /\ req' = [req EXCEPT ![p] =
                            [r EXCEPT !.code = 400, !.error = "InvalidStatus"]]
               /\ UNCHANGED bookings
          ELSE IF id \notin 1..Len(bookings)
            THEN /\ req' = [req EXCEPT ![p] =
                              [r EXCEPT !.code = 404, !.error = "NotFound"]]
                 /\ UNCHANGED bookings
            ELSE /\ bookings' = [bookings EXCEPT ![id].status = status]
                 /\ req' = [req EXCEPT ![p] = [r EXCEPT !.code = 200]]
  /\ UNCHANGED <<vehicles, now>>

\* Mutant: the status of the booking is not checked.
CancelFindBooking_NoStateCheck(p, id) ==
  /\ Free(p)
  /\ req' = [req EXCEPT ![p] =
               IF id \notin 1..Len(bookings)
                 THEN Respond("cancelBooking", 404, "NotFound")
                 ELSE LET hoursUntilStart == bookings[id].startTime - now
                      IN IF hoursUntilStart < 1
                           THEN [Respond("cancelBooking", 400, "TooLate") EXCEPT
                                   !.id = id, !.hoursUntilStart = hoursUntilStart]
                           ELSE [NoRequest EXCEPT
                                   !.op = "cancelBooking", !.pc = "save",
                                   !.id = id, !.hoursUntilStart = hoursUntilStart]]
  /\ UNCHANGED <<vehicles, bookings, now>>

\* Mutant: the buffer is compared with <= (exactly one hour is too late).
CancelFindBooking_BufferInclusive(p, id) ==
  /\ Free(p)
  /\ req' = [req EXCEPT ![p] =
               IF id \notin 1..Len(bookings)
                 THEN Respond("cancelBooking", 404, "NotFound")
                 ELSE IF bookings[id].status # "confirmed"
                   THEN [Respond("cancelBooking", 400, "InvalidState") EXCEPT !.id = id]
                   ELSE LET hoursUntilStart == bookings[id].startTime - now
                        IN IF hoursUntilStart <= 1
                             THEN [Respond("cancelBooking", 400, "TooLate") EXCEPT
                                     !.id = id, !.hoursUntilStart = hoursUntilStart]
                             ELSE [NoRequest EXCEPT
                                     !.op = "cancelBooking", !.pc = "save",
                                     !.id = id, !.hoursUntilStart = hoursUntilStart]]
  /\ UNCHANGED <<vehicles, bookings, now>>

\* DELETE /api/bookings/:id arrives and Booking.findById answers: the checks
\* of cancelBooking run on the document read, then save() is issued.  The
\* request keeps its id and the hoursUntilStart it computed.
CancelFindBooking(p, id) ==
  /\ Free(p)
  /\ req' = [req EXCEPT ![p] =
               IF id \notin 1..Len(bookings)
                 THEN Respond("cancelBooking", 404, "NotFound")
                 ELSE IF bookings[id].status # "confirmed"
                   THEN [Respond("cancelBooking", 400, "InvalidState") EXCEPT !.id = id]
                   ELSE LET hoursUntilStart == bookings[id].startTime - now
                        IN IF hoursUntilStart < 1
                             THEN [Respond("cancelBooking", 400, "TooLate") EXCEPT
                                     !.id = id, !.hoursUntilStart = hoursUntilStart]
                             ELSE [NoRequest EXCEPT
                                     !.op = "cancelBooking", !.pc = "save",
                                     !.id = id, !.hoursUntilStart = hoursUntilStart]]
  /\ UNCHANGED <<vehicles, bookings, now>>

\* Mutant: save() writes the vehicleId of the request, which has none, over
\* the one of the document.
CancelSave_WritesVehicle(p) ==
  /\ req[p].op = "cancelBooking"
  /\ req[p].pc = "save"
  /\ IF StartTimeValidator(bookings[req[p].id].startTime)
       THEN /\ bookings' = [bookings EXCEPT ![req[p].id].status = "cancelled",
                                            ![req[p].id].vehicleId = req[p].vehicleId]
            /\ req' = [req EXCEPT ![p] =
                         [req[p] EXCEPT !.pc = "done", !.code = 200]]
       ELSE /\ req' = [req EXCEPT ![p] =
                         [req[p] EXCEPT !.pc = "done", !.code = 400,
                                        !.error = "ValidationError"]]
            /\ UNCHANGED bookings
  /\ UNCHANGED <<vehicles, now>>

\* booking.save() of cancelBooking: the schema validators run on the loaded
\* document, then its modified path (status) is written.
CancelSave(p) ==
  /\ req[p].op = "cancelBooking"
  /\ req[p].pc = "save"
  /\ IF StartTimeValidator(bookings[req[p].id].startTime)
       THEN /\ bookings' = [bookings EXCEPT ![req[p].id].status = "cancelled"]
            /\ req' = [req EXCEPT ![p] =
                         [req[p] EXCEPT !.pc = "done", !.code = 200]]
       ELSE /\ req' = [req EXCEPT ![p] =
                         [req[p] EXCEPT !.pc = "done", !.code = 400,
                                        !.error = "ValidationError"]]
            /\ UNCHANGED bookings
  /\ UNCHANGED <<vehicles, now>>

(***************************************************************************)
(* models/Booking.js called on its own: the static findOverlappingBookings *)
(* and the instance method overlapsWithTimeWindow.  The result (the number *)
(* of documents found; 1 or 0 for true or false) is kept in the slot.      *)
(***************************************************************************)
CallFindOverlappingBookings(p, vehicleId, startTime, endTime, excludeBookingId) ==
  /\ Free(p)
  /\ req' = [req EXCEPT ![p] =
               [Respond("findOverlappingBookings", 0, "") EXCEPT
                  !.vehicleId = vehicleId,
                  !.startTime = startTime,
                  !.endTime = endTime,
                  !.id = excludeBookingId,
                  !.conflictingBookings =
                     Cardinality(findOverlappingBookings(vehicleId, startTime,
                                                         endTime, excludeBookingId))]]
  /\ UNCHANGED <<vehicles, bookings, now>>

CallOverlapsWithTimeWindow(p, id, startTime, endTime) ==
  /\ Free(p)
  /\ id \in 1..Len(bookings)
  /\ req' = [req EXCEPT ![p] =
               [Respond("overlapsWithTimeWindow", 0, "") EXCEPT
                  !.id = id,
                  !.startTime = startTime,
                  !.endTime = endTime,
                  !.conflictingBookings =
                     IF overlapsWithTimeWindow(bookings[id], startTime, endTime)
                       THEN 1 ELSE 0]]
  /\ UNCHANGED <<vehicles, bookings, now>>

\* utils/helpers.js called on its own: calculateRideDuration.
CallCalculateRideDuration(p, fromPincode, toPincode) ==
  /\ Free(p)
  /\ req' = [req EXCEPT ![p] =
               [Respond("calculateRideDuration", 0, "") EXCEPT
                  !.fromPincode = fromPincode,
                  !.toPincode = toPincode,
                  !.estimatedRideDurationHours =
                     calculateRideDuration(fromPincode, toPincode)]]
  /\ UNCHANGED <<vehicles, bookings, now>>

(***************************************************************************)
(* The server.  A request may arrive on any free connection of P at any    *)
(* time, and the pending store operations complete in any order.  A        *)
(* createBooking request is admitted only while the collection, with the   *)
(* requests in flight, stays within maxBookings documents.                 *)
(***************************************************************************)
Creating == {p \in Procs : req[p].op = "createBooking" /\ req[p].pc # "done"}

Clock(maxTime) == now < maxTime /\ Tick

CreateBookingArrives(P, tos, starts, maxBookings) ==
  /\ Len(bookings) + Cardinality(Creating) < maxBookings
  /\ \E p \in P, vehicleId \in VehicleIdInputs, customerId \in CustomerIds,
        fromPincode \in FromPincodes, toPincode \in tos, startTime \in starts :
       BeginCreateBooking(p, vehicleId, customerId, fromPincode, toPincode, startTime)

CreateBookingStep(P) ==
  \E p \in P :
    CreateFindVehicle(p) \/ CreateFindOverlapping(p) \/ CreateSave(p)

CancelBookingArrives(P) ==
  \E p \in P, id \in BookingIdInputs : CancelFindBooking(p, id)

CancelBookingStep(P) == \E p \in P : CancelSave(p)

UpdateBookingStatusRequest(P) ==
  \E p \in P, id \in BookingIdInputs, status \in BookingStatusInputs :
    updateBookingStatus(p, id, status)

AddVehicleRequest(P, capacities, maxVehicles) ==
  /\ Len(vehicles) < maxVehicles
  /\ \E p \in P, capacityKg \in capacities : addVehicle(p, capacityKg)

UpdateVehicleStatusRequest(P) ==
  \E p \in P, id \in VehicleIdInputs, status \in VehicleStatusInputs :
    updateVehicleStatus(p, id, status)

FindAvailableArrives(P, capacities, tos, starts) ==
  \E p \in P, capacityRequired \in capacities, fromPincode \in FromPincodes,
     toPincode \in tos, startTime \in starts :
    BeginFindAvailableVehicles(p, capacityRequired, fromPincode, toPincode, startTime)

FindAvailableStep(P) ==
  \E p \in P : AvailableFindVehicles(p) \/ AvailableFindOverlapping(p)

\* The requests that write, on NumProcs connections.
Next ==
  \/ Clock(MaxTime)
  \/ AddVehicleRequest(Procs, Capacities, MaxVehicles)
  \/ UpdateVehicleStatusRequest(Procs)
  \/ CreateBookingArrives(Procs, ToPincodes, StartTimes, MaxBookings)
  \/ CreateBookingStep(Procs)
  \/ CancelBookingArrives(Procs)
  \/ CancelBookingStep(Procs)
  \/ UpdateBookingStatusRequest(Procs)

Spec == Init /\ [][Next]_vars

\* The whole server with one connection: requests run one after the other.
SeqNext ==
  \/ Clock(SeqMaxTime)
  \/ AddVehicleRequest({1}, Capacities, SeqMaxVehicles)
  \/ UpdateVehicleStatusRequest({1})
  \/ CreateBookingArrives({1}, SeqToPincodes, SeqStartTimes, SeqMaxBookings)
  \/ CreateBookingStep({1})
  \/ CancelBookingArrives({1})
  \/ CancelBookingStep({1})
  \/ UpdateBookingStatusRequest({1})

SpecSeq == Init /\ [][SeqNext]_vars

\* Admissions only: createBooking requests on NumProcs connections.
AdmitNext ==
  \/ Clock(MaxTime)
  \/ AddVehicleRequest(Procs, Capacities, MaxVehicles)
  \/ CreateBookingArrives(Procs, ToPincodes, StartTimes, MaxBookings)
  \/ CreateBookingStep(Procs)

SpecAdmit == Init /\ [][AdmitNext]_vars

\* NumProcs createBooking requests with the same body, fired together at
\* one active vehicle without bookings; no other request is served.
FireInit ==
  /\ \E capacityKg \in Capacities :
       vehicles = <<[capacityKg |-> capacityKg, status |-> "active"]>>
  /\ bookings = <<>>
  /\ now = 0
  /\ \E customerId \in CustomerIds, fromPincode \in FromPincodes,
        toPincode \in {PinA, PinB}, startTime \in StartTimes :
       req = [p \in Procs |->
                [NoRequest EXCEPT !.op = "createBooking",
                                  !.pc = "findVehicle",
                                  !.vehicleId = 1,
                                  !.customerId = customerId,
                                  !.fromPincode = fromPincode,
                                  !.toPincode = toPincode,
                                  !.startTime = startTime]]

FireNext ==
  \/ Clock(MaxTime)
  \/ CreateBookingStep(Procs)

SpecFire == FireInit /\ [][FireNext]_vars

\* The overlap test on its own: two vehicles with one confirmed booking
\* each, of any two windows within OverlapMaxTime; the query and the method
\* are called with the window of either booking.
PinTo(hours) == <<1, 1, 0, 0, 0, 1 + hours>>

Windows ==
  {w \in (1..OverlapMaxTime) \X (1..OverlapMaxTime) : w[1] < w[2]}

BookingOn(vehicleId, capacityKg, w) ==
  [vehicleId |-> vehicleId,
   customerId |-> "CUST001",
   fromPincode |-> PinA,
   toPincode |-> PinTo(w[2] - w[1]),
   startTime |-> w[1],
   endTime |-> w[2],
   estimatedRideDurationHours |-> calculateRideDuration(PinA, PinTo(w[2] - w[1])),
   totalCost |-> calculateBookingCost(w[2] - w[1], capacityKg, PinA,
                                      PinTo(w[2] - w[1])),
   status |-> "confirmed"]

OverlapInit ==
  /\ vehicles = <<[capacityKg |-> 5000, status |-> "active"],
                  [capacityKg |-> 5000, status |-> "active"]>>
  /\ \E w1 \in Windows, w2 \in Windows :
       bookings = <<BookingOn(1, 5000, w1), BookingOn(2, 5000, w2)>>
  /\ now = 0
  /\ req = [p \in Procs |-> NoRequest]

ProbeQuery ==
  \E p \in Procs, vehicleId \in 1..Len(vehicles), i \in 1..Len(bookings) :
    CallFindOverlappingBookings(p, vehicleId, bookings[i].startTime,
                                bookings[i].endTime, UnknownId)

ProbeMethod ==
  \E p \in Procs, id \in 1..Len(bookings), i \in 1..Len(bookings) :
    CallOverlapsWithTimeWindow(p, id, bookings[i].startTime, bookings[i].endTime)

OverlapNext ==
  \/ ProbeQuery
  \/ ProbeMethod

SpecOverlap == OverlapInit /\ [][OverlapNext]_vars

\* Search, then book: availability searches, conflict queries and
\* createBooking requests on NumProcs connections.
AdvisoryProbe ==
  \E p \in Procs, vehicleId \in 1..Len(vehicles), startTime \in StartTimes :
    CallFindOverlappingBookings(p, vehicleId, startTime,
                                startTime + calculateRideDuration(PinA, PinB),
                                UnknownId)

AdvisoryNext ==
  \/ Clock(MaxTime)
  \/ AddVehicleRequest(Procs, Capacities, MaxVehicles)
  \/ CreateBookingArrives(Procs, {PinB}, StartTimes, MaxBookings)
  \/ CreateBookingStep(Procs)
  \/ FindAvailableArrives(Procs, {Cap5000}, {PinB}, StartTimes)
  \/ FindAvailableStep(Procs)
  \/ AdvisoryProbe

SpecAdvisory == Init /\ [][AdvisoryNext]_vars

\* The availability search on a store at rest: a fleet of SearchMaxVehicles
\* vehicles of 1000 or 5000 kg, active or in maintenance, with no booking or
\* one booking of window [2, 4) in any status on one of them; searches run
\* one after the other on one connection.
SearchCapacities == {Cap1000, Cap1000Half, Cap5000, Cap5000Half, CapZero}

SearchInit ==
  /\ vehicles \in [1..SearchMaxVehicles ->
                     [capacityKg : {1000, 5000}, status : {"active", "maintenance"}]]
  /\ \/ bookings = <<>>
     \/ \E v \in 1..SearchMaxVehicles, status \in validStatuses :
          bookings = <<[BookingOn(v, vehicles[v].capacityKg, <<2, 4>>)
                          EXCEPT !.status = status]>>
  /\ now = 0
  /\ req = [p \in Procs |-> NoRequest]

SearchNext ==
  \/ FindAvailableArrives({1}, SearchCapacities, {PinA, PinB}, {1, 2})
  \/ FindAvailableStep({1})

SpecSearch == SearchInit /\ [][SearchNext]_vars

\* Cancellation: one vehicle with one booking, of any status and any start
\* within CancelMaxTime; cancelBooking and updateBookingStatus requests on
\* NumProcs connections while the clock runs.
CancelInit ==
  /\ vehicles = <<[capacityKg |-> 5000, status |-> "active"]>>
  /\ \E startTime \in 1..CancelMaxTime, status \in validStatuses :
       bookings = <<[BookingOn(1, 5000, <<startTime, startTime + 2>>)
                       EXCEPT !.status = status]>>
  /\ now = 0
  /\ req = [p \in Procs |-> NoRequest]

CancelNext ==
  \/ Clock(CancelMaxTime)
  \/ CancelBookingArrives(Procs)
  \/ CancelBookingStep(Procs)
  \/ UpdateBookingStatusRequest(Procs)

SpecCancel == CancelInit /\ [][CancelNext]_vars

\* calculateRideDuration on its own: called with any two of the 6-digit
\* codes 110000 .. 110000 + DurationRange and of three strings that are no
\* pincodes ("invalid", "12ab", "").
PinOf(k) == <<1, 1, 0, 0, k \div 10, k % 10>>

PinInvalid == <<NonDigit, NonDigit, NonDigit, NonDigit, NonDigit, NonDigit, NonDigit>>
PinAlnum == <<1, 2, NonDigit, NonDigit>>
PinEmpty == <<>>

DurationInputs ==
  {PinOf(k) : k \in 0..DurationRange} \cup {PinInvalid, PinAlnum, PinEmpty}

DurationNext ==
  \E fromPincode \in DurationInputs, toPincode \in DurationInputs :
    CallCalculateRideDuration(1, fromPincode, toPincode)

SpecDuration == Init /\ [][DurationNext]_vars

\* What createBooking stores: vehicles of 500 or 5000 kg, and requests from
\* 110001 to 110001, 110003, 110025 and 110151 (distances 0, 2, 24 and 150),
\* served one after the other.
PinFar == <<1, 1, 0, 1, 5, 1>>

CostCapacities == {500, 5000}
CostToPincodes == {PinA, PinB, PinOf(25), PinFar}

CostNext ==
  \/ AddVehicleRequest({1}, CostCapacities, CostMaxVehicles)
  \/ CreateBookingArrives({1}, CostToPincodes, {1}, CostMaxBookings)
  \/ CreateBookingStep({1})

SpecCost == Init /\ [][CostNext]_vars

\* The conflict query with excludeBookingId: two vehicles and two bookings,
\* each on either vehicle, in any status and with any window within
\* ExcludeMaxTime; the query is called for either vehicle with the window of
\* either booking, excluding a booking or none.
ExcludeWindows ==
  {w \in (1..ExcludeMaxTime) \X (1..ExcludeMaxTime) : w[1] < w[2]}

ExcludeInit ==
  /\ vehicles = <<[capacityKg |-> 5000, status |-> "active"],
                  [capacityKg |-> 5000, status |-> "active"]>>
  /\ \E v1, v2 \in 1..2, w1, w2 \in ExcludeWindows, s1, s2 \in validStatuses :
       bookings = <<[BookingOn(v1, 5000, w1) EXCEPT !.status = s1],
                    [BookingOn(v2, 5000, w2) EXCEPT !.status = s2]>>
  /\ now = 0
  /\ req = [p \in Procs |-> NoRequest]

ProbeExcluding ==
  \E vehicleId \in 1..Len(vehicles), i \in 1..Len(bookings),
     excludeBookingId \in BookingIdInputs :
    CallFindOverlappingBookings(1, vehicleId, bookings[i].startTime,
                                bookings[i].endTime, excludeBookingId)

ExcludeNext == ProbeExcluding

SpecExclude == ExcludeInit /\ [][ExcludeNext]_vars

(***************************************************************************)
(* Properties.                                                             *)
(***************************************************************************)
ActiveStatuses == {"confirmed", "in-progress"}

IsActive(b) == b.status \in ActiveStatuses

\* Two half-open windows [s1, e1) and [s2, e2) share an instant.
WindowsOverlap(s1, e1, s2, e2) == s1 < e2 /\ s2 < e1

\* The active reservations of vehicle v whose window overlaps [s, e).
ActiveOverlaps(v, s, e) ==
  {i \in 1..Len(bookings) :
     /\ bookings[i].vehicleId = v
     /\ IsActive(bookings[i])
     /\ WindowsOverlap(bookings[i].startTime, bookings[i].endTime, s, e)}

\* Connection p takes a step of its request.
Steps(p) == req'[p] # req[p]

AtStage(p, op, pc) == req[p].op = op /\ req[p].pc = pc

\* C1: in every reachable state, two distinct confirmed or in-progress
\* reservations of the same vehicle have disjoint windows [startTime, endTime).
C1_NoDoubleBooking ==
  \A i, j \in 1..Len(bookings) :
    (/\ i # j
     /\ bookings[i].vehicleId = bookings[j].vehicleId
     /\ IsActive(bookings[i])
     /\ IsActive(bookings[j]))
    => ~WindowsOverlap(bookings[i].startTime, bookings[i].endTime,
                       bookings[j].startTime, bookings[j].endTime)

\* C2: the conflict check and the persist of an admission are atomic with
\* respect to the other admissions: whenever a createBooking request inserts
\* its reservation, no active reservation of its vehicle overlaps its window
\* in the store it inserts into, so that of concurrent, mutually overlapping
\* requests at most one commits.
C2_AdmissionAtomic ==
  [][\A p \in Procs :
       (AtStage(p, "createBooking", "save") /\ Steps(p) /\ req'[p].code = 201)
       => ActiveOverlaps(req[p].vehicleId, req[p].startTime, req[p].endTime) = {}]_vars

\* C3: when the NumProcs requests fired together with the same window at one
\* active vehicle without reservations have all ended in success or Conflict,
\* exactly one has ended in success and the NumProcs - 1 others in Conflict.
C3_ExactlyOneSuccess ==
  (\A p \in Procs : AtStage(p, "createBooking", "done") /\ req[p].code \in {201, 409})
  => /\ Cardinality({p \in Procs : req[p].code = 201}) = 1
     /\ Cardinality({p \in Procs : req[p].code = 409}) = NumProcs - 1

\* The active reservations of the vehicle of request r.
ActiveOfVehicle(r) ==
  {i \in 1..Len(bookings) :
     bookings[i].vehicleId = r.vehicleId /\ IsActive(bookings[i])}

\* The save of a createBooking request whose startTime is still in the
\* future succeeds.
SaveSucceeds(p) ==
  (AtStage(p, "createBooking", "save") /\ Steps(p) /\ req[p].startTime > now)
  => /\ req'[p].pc = "done"
     /\ req'[p].code = 201
     /\ Len(bookings') = Len(bookings) + 1

\* C4: a createBooking request whose conflict check finds at least one
\* confirmed or in-progress reservation of its vehicle overlapping its window
\* ends in Conflict (409) carrying the number of these reservations, and
\* creates no reservation.
C4_ConflictRejected ==
  [][\A p \in Procs :
       (/\ AtStage(p, "createBooking", "findOverlapping")
        /\ Steps(p)
        /\ ActiveOverlaps(req[p].vehicleId, req[p].startTime, req[p].endTime) # {})
       => /\ req'[p].pc = "done"
          /\ req'[p].code = 409
          /\ req'[p].error = "Conflict"
          /\ req'[p].conflictingBookings =
               Cardinality(ActiveOverlaps(req[p].vehicleId, req[p].startTime,
                                          req[p].endTime))
          /\ bookings' = bookings]_vars

C4_Witness ==
  \E p \in Procs :
    /\ AtStage(p, "createBooking", "done")
    /\ req[p].code = 409
    /\ req[p].conflictingBookings >= 1
    /\ \E i \in 1..Len(bookings) : IsActive(bookings[i])

\* C5: a createBooking request ends in NotFound (404) when its vehicle does
\* not exist and in NotAvailable (400) when the vehicle is in maintenance or
\* retired; neither store changes; and the vehicle check comes first: these
\* two outcomes are given before any conflict query, and the conflict query
\* is issued only for a vehicle found active.
C5_VehicleCheck ==
  [][\A p \in Procs :
       /\ (AtStage(p, "createBooking", "findVehicle") /\ Steps(p))
          => /\ (req[p].vehicleId \notin 1..Len(vehicles))
                => (req'[p].pc = "done" /\ req'[p].code = 404
                    /\ req'[p].error = "NotFound")
             /\ (/\ req[p].vehicleId \in 1..Len(vehicles)
                 /\ vehicles[req[p].vehicleId].status \in {"maintenance", "retired"})
                => (req'[p].pc = "done" /\ req'[p].code = 400
                    /\ req'[p].error = "NotAvailable")
             /\ (req'[p].pc = "done")
                => (bookings' = bookings /\ vehicles' = vehicles)
       /\ (/\ Steps(p)
           /\ req'[p].op = "createBooking"
           /\ req'[p].error \in {"NotFound", "NotAvailable"})
          => AtStage(p, "createBooking", "findVehicle")
       /\ (Steps(p) /\ req'[p].op = "createBooking" /\ req'[p].pc = "findOverlapping")
          => /\ AtStage(p, "createBooking", "findVehicle")
             /\ req[p].vehicleId \in 1..Len(vehicles)
             /\ vehicles[req[p].vehicleId].status = "active"]_vars

C5_Witness ==
  \E p, q \in Procs :
    /\ AtStage(p, "createBooking", "done") /\ req[p].error = "NotFound"
    /\ AtStage(q, "createBooking", "done") /\ req[q].error = "NotAvailable"
    /\ \E v \in 1..Len(vehicles) : vehicles[v].status # "active"

\* C6: a createBooking request (startTime still in the future when it is
\* saved) for an existing active vehicle, whose window
\* [startTime, startTime + estimateDuration(from, to)) overlaps no confirmed or
\* in-progress reservation of that vehicle, passes the vehicle check and the
\* conflict check and succeeds (201); it appends exactly one reservation, with
\* status confirmed, the requested vehicle, customer, route and startTime, and
\* endTime = startTime + estimateDuration(from, to).
C6_AdmissionStores ==
  [][\A p \in Procs :
       LET r == req[p]
           hours == calculateRideDuration(r.fromPincode, r.toPincode)
       IN /\ (/\ AtStage(p, "createBooking", "findVehicle")
              /\ Steps(p)
              /\ r.vehicleId \in 1..Len(vehicles)
              /\ vehicles[r.vehicleId].status = "active")
             => req'[p].pc = "findOverlapping"
          /\ (/\ AtStage(p, "createBooking", "findOverlapping")
              /\ Steps(p)
              /\ ActiveOverlaps(r.vehicleId, r.startTime, r.startTime + hours) = {})
             => req'[p].pc = "save"
          /\ (AtStage(p, "createBooking", "save") /\ Steps(p) /\ r.startTime > now)
             => /\ req'[p].pc = "done"
                /\ req'[p].code = 201
                /\ Len(bookings') = Len(bookings) + 1
                /\ SubSeq(bookings', 1, Len(bookings)) = bookings
                /\ req'[p].id = Len(bookings')
                /\ LET b == bookings'[Len(bookings')]
                   IN /\ b.status = "confirmed"
                      /\ b.vehicleId = r.vehicleId
                      /\ b.customerId = r.customerId
                      /\ b.fromPincode = r.fromPincode
                      /\ b.toPincode = r.toPincode
                      /\ b.startTime = r.startTime
                      /\ b.endTime = r.startTime + hours
                      /\ b.estimatedRideDurationHours = hours]_vars

C6_Witness ==
  \E p \in Procs :
    /\ AtStage(p, "createBooking", "done")
    /\ req[p].code = 201
    /\ req[p].id \in 1..Len(bookings)
    /\ bookings[req[p].id].status = "confirmed"
    /\ bookings[req[p].id].endTime = bookings[req[p].id].startTime + 2

\* C7: back-to-back windows do not conflict.  A createBooking request whose
\* window starts exactly at the end, or ends exactly at the start, of an
\* active reservation of its vehicle, and overlaps no active reservation of
\* the vehicle, passes the conflict check and (startTime still in the future)
\* succeeds; a request whose window starts inside [s, e) of an active
\* reservation of its vehicle ends in Conflict.
C7_BackToBack ==
  [][\A p \in Procs :
       LET r == req[p]
       IN /\ (/\ AtStage(p, "createBooking", "findOverlapping")
              /\ Steps(p)
              /\ \E i \in ActiveOfVehicle(r) :
                   \/ r.startTime = bookings[i].endTime
                   \/ r.endTime = bookings[i].startTime
              /\ \A i \in ActiveOfVehicle(r) :
                   ~WindowsOverlap(bookings[i].startTime, bookings[i].endTime,
                                   r.startTime, r.endTime))
             => req'[p].pc = "save"
          /\ (/\ AtStage(p, "createBooking", "findOverlapping")
              /\ Steps(p)
              /\ \E i \in ActiveOfVehicle(r) :
                   bookings[i].startTime <= r.startTime
                   /\ r.startTime < bookings[i].endTime)
             => (req'[p].pc = "done" /\ req'[p].code = 409)
          /\ SaveSucceeds(p)]_vars

C7_Witness ==
  \E p \in Procs :
    /\ AtStage(p, "createBooking", "done")
    /\ req[p].code = 201
    /\ req[p].id \in 1..Len(bookings)
    /\ \E i \in 1..Len(bookings) :
         /\ i # req[p].id
         /\ bookings[i].vehicleId = bookings[req[p].id].vehicleId
         /\ IsActive(bookings[i])
         /\ IsActive(bookings[req[p].id])
         /\ bookings[i].endTime = bookings[req[p].id].startTime

\* C8: on every pair of windows within OverlapMaxTime, the conflict query finds
\* a booking of the queried vehicle exactly when
\* startA < endB /\ startB < endA holds of the booking's window A and the
\* proposed window B; the test gives the same answer with the two windows
\* exchanged; and overlapsWithTimeWindow gives the answer of the query.
OverlapsByRule(i, r) ==
  bookings[i].startTime < r.endTime /\ r.startTime < bookings[i].endTime

IsQuery(r) == r.op = "findOverlappingBookings" /\ r.pc = "done"

IsMethod(r) == r.op = "overlapsWithTimeWindow" /\ r.pc = "done"

HasWindowOf(r, i) ==
  r.startTime = bookings[i].startTime /\ r.endTime = bookings[i].endTime

C8_OverlapPredicate ==
  /\ \A p \in Procs :
       IsQuery(req[p])
       => req[p].conflictingBookings =
            Cardinality({i \in 1..Len(bookings) :
                           /\ bookings[i].vehicleId = req[p].vehicleId
                           /\ IsActive(bookings[i])
                           /\ OverlapsByRule(i, req[p])})
  /\ \A p \in Procs :
       IsMethod(req[p])
       => (req[p].conflictingBookings = 1 <=> OverlapsByRule(req[p].id, req[p]))
  /\ \A p, q \in Procs : \A i, j \in 1..Len(bookings) :
       (/\ IsQuery(req[p]) /\ IsQuery(req[q])
        /\ bookings[i].vehicleId # bookings[j].vehicleId
        /\ req[p].vehicleId = bookings[i].vehicleId /\ HasWindowOf(req[p], j)
        /\ req[q].vehicleId = bookings[j].vehicleId /\ HasWindowOf(req[q], i))
       => req[p].conflictingBookings = req[q].conflictingBookings
  /\ \A p, q \in Procs :
       (/\ IsQuery(req[p]) /\ IsMethod(req[q])
        /\ req[p].vehicleId = bookings[req[q].id].vehicleId
        /\ req[p].startTime = req[q].startTime
        /\ req[p].endTime = req[q].endTime)
       => req[p].conflictingBookings = req[q].conflictingBookings

\* The query has answered "no overlap" on back-to-back windows and the method
\* "overlap" on a pair of windows.
C8_Witness ==
  \E p, q \in Procs :
    /\ IsQuery(req[p])
    /\ req[p].conflictingBookings = 0
    /\ \E i \in 1..Len(bookings) :
         /\ bookings[i].vehicleId = req[p].vehicleId
         /\ bookings[i].endTime = req[p].startTime
    /\ IsMethod(req[q])
    /\ req[q].conflictingBookings = 1

\* C9: a completed or cancelled reservation is never returned by the conflict
\* query and never causes a Conflict: a createBooking request whose window
\* overlaps, on its vehicle, only completed or cancelled reservations passes
\* the conflict check and (startTime still in the future) succeeds.
TimeDomain == 0..(MaxTime + SeqMaxTime + 4)

C9_QueryInvariant ==
  \A v \in 1..Len(vehicles), s \in TimeDomain, e \in TimeDomain :
    \A i \in findOverlappingBookings(v, s, e, UnknownId) :
      bookings[i].status \notin {"completed", "cancelled"}

C9_InactiveIgnored ==
  /\ []C9_QueryInvariant
  /\ [][\A p \in Procs :
          LET r == req[p]
          IN /\ (/\ AtStage(p, "createBooking", "findOverlapping")
                 /\ Steps(p)
                 /\ \A i \in 1..Len(bookings) :
                      (/\ bookings[i].vehicleId = r.vehicleId
                       /\ WindowsOverlap(bookings[i].startTime, bookings[i].endTime,
                                         r.startTime, r.endTime))
                      => bookings[i].status \in {"completed", "cancelled"})
                => req'[p].pc = "save"
             /\ (Steps(p) /\ req'[p].op = "createBooking" /\ req'[p].code = 409)
                => \E i \in ActiveOfVehicle(r) :
                     WindowsOverlap(bookings[i].startTime, bookings[i].endTime,
                                    r.startTime, r.endTime)
             /\ SaveSucceeds(p)]_vars

C9_Witness ==
  \E p \in Procs :
    /\ AtStage(p, "createBooking", "done")
    /\ req[p].code = 201
    /\ req[p].id \in 1..Len(bookings)
    /\ \E i \in 1..Len(bookings) :
         /\ i < req[p].id
         /\ bookings[i].vehicleId = bookings[req[p].id].vehicleId
         /\ bookings[i].status \in {"completed", "cancelled"}
         /\ WindowsOverlap(bookings[i].startTime, bookings[i].endTime,
                           bookings[req[p].id].startTime, bookings[req[p].id].endTime)

\* C10: the conflict query returns reservations of the queried vehicle only,
\* and an active reservation of another vehicle never causes a Conflict: a
\* createBooking request ends in Conflict only if an active reservation of
\* its own vehicle overlaps its window, whatever the other vehicles hold.
C10_QueryInvariant ==
  \A v \in 1..Len(vehicles), s \in TimeDomain, e \in TimeDomain :
    \A i \in findOverlappingBookings(v, s, e, UnknownId) :
      bookings[i].vehicleId = v

C10_OtherVehiclesIgnored ==
  /\ []C10_QueryInvariant
  /\ [][\A p \in Procs :
          LET r == req[p]
          IN /\ (/\ AtStage(p, "createBooking", "findOverlapping")
                 /\ Steps(p)
                 /\ \A i \in 1..Len(bookings) :
                      (/\ IsActive(bookings[i])
                       /\ WindowsOverlap(bookings[i].startTime, bookings[i].endTime,
                                         r.startTime, r.endTime))
                      => bookings[i].vehicleId # r.vehicleId)
                => (req'[p].pc = "save" /\ req'[p].code # 409)
             /\ SaveSucceeds(p)]_vars

C10_Witness ==
  \E p \in Procs :
    /\ AtStage(p, "createBooking", "done")
    /\ req[p].code = 201
    /\ req[p].id \in 1..Len(bookings)
    /\ \E i \in 1..Len(bookings) :
         /\ bookings[i].vehicleId # bookings[req[p].id].vehicleId
         /\ IsActive(bookings[i])
         /\ WindowsOverlap(bookings[i].startTime, bookings[i].endTime,
                           bookings[req[p].id].startTime, bookings[req[p].id].endTime)

\* C11: findOverlappingBookings with excludeBookingId = r returns the result
\* of the same call without exclusion minus reservation r, and without
\* excludeBookingId it returns all the active reservations of the vehicle
\* that overlap the window; the calls made have answered accordingly.
C11_Exclusion ==
  /\ \A v \in 1..Len(vehicles), s \in TimeDomain, e \in TimeDomain :
       /\ findOverlappingBookings(v, s, e, UnknownId) = ActiveOverlaps(v, s, e)
       /\ \A r \in 1..Len(bookings) :
            findOverlappingBookings(v, s, e, r)
              = findOverlappingBookings(v, s, e, UnknownId) \ {r}
  /\ \A p \in Procs :
       IsQuery(req[p])
       => req[p].conflictingBookings =
            Cardinality(ActiveOverlaps(req[p].vehicleId, req[p].startTime,
                                       req[p].endTime) \ {req[p].id})

\* A call has excluded one of two overlapping active reservations.
C11_Witness ==
  \E p \in Procs :
    /\ IsQuery(req[p])
    /\ req[p].id \in ActiveOverlaps(req[p].vehicleId, req[p].startTime,
                                     req[p].endTime)
    /\ req[p].conflictingBookings = 1
    /\ Cardinality(ActiveOverlaps(req[p].vehicleId, req[p].startTime,
                                  req[p].endTime)) = 2

IsSearch(r) == r.op = "findAvailableVehicles" /\ r.pc = "done" /\ r.code = 200

\* The vehicles of a sequence of vehicle ids.
Range(seq) == {seq[i] : i \in 1..Len(seq)}

\* C12: every step of an availability search (its arrival, the answer of
\* Vehicle.find, the answer of each conflict query) and every call of
\* findOverlappingBookings leaves the vehicles and the bookings unchanged,
\* whatever it answers.
C12_ReadOnly ==
  [][\A p \in Procs :
       (/\ Steps(p)
        /\ req'[p].op \in {"findAvailableVehicles", "findOverlappingBookings"})
       => (vehicles' = vehicles /\ bookings' = bookings)]_vars

\* A search has listed a vehicle and a conflict query has found a booking.
C12_Witness ==
  \E p, q \in Procs :
    /\ IsSearch(req[p])
    /\ req[p].availableVehicles # <<>>
    /\ IsQuery(req[q])
    /\ req[q].conflictingBookings >= 1

\* C16: the availability search confers no reservation.  When a search has
\* returned vehicle v for a window, and the store holds an active reservation
\* of v overlapping that window at the moment a createBooking request for v
\* and that window runs its conflict check, the request ends in Conflict and
\* stores nothing.
C16_SearchIsAdvisory ==
  [][\A p, q \in Procs :
       (/\ AtStage(p, "createBooking", "findOverlapping")
        /\ Steps(p)
        /\ IsSearch(req[q])
        /\ req[p].vehicleId \in Range(req[q].availableVehicles)
        /\ req[p].startTime = req[q].startTime
        /\ req[p].endTime = req[q].endTime
        /\ ActiveOverlaps(req[p].vehicleId, req[p].startTime, req[p].endTime) # {})
       => /\ req'[p].pc = "done"
          /\ req'[p].code = 409
          /\ req'[p].error = "Conflict"
          /\ bookings' = bookings]_vars

\* A search listed a vehicle for a window; an active reservation of the
\* vehicle now overlaps that window, and a createBooking request has ended
\* in Conflict.
C16_Witness ==
  \E p, q \in Procs :
    /\ IsSearch(req[q])
    /\ \E v \in Range(req[q].availableVehicles) :
         ActiveOverlaps(v, req[q].startTime, req[q].endTime) # {}
    /\ AtStage(p, "createBooking", "done")
    /\ req[p].code = 409

\* capacityKg >= the number the numeral capacityRequired denotes.
AtLeast(capacityKg, capacityRequired) ==
  \/ capacityKg > WholePart(capacityRequired)
  \/ capacityKg = WholePart(capacityRequired) /\ ~HasFraction(capacityRequired)

\* The active vehicles of sufficient capacity for the search r.
Qualifying(r) ==
  {v \in 1..Len(vehicles) :
     /\ vehicles[v].status = "active"
     /\ AtLeast(vehicles[v].capacityKg, r.capacityRequired)}

\* Vehicle v has no active reservation overlapping the window of search r.
FreeFor(v, r) ==
  ActiveOverlaps(v, r.startTime,
                 r.startTime + calculateRideDuration(r.fromPincode, r.toPincode)) = {}

\* C13: on a store that does not change during the call, the vehicles
\* findAvailableVehicles returns are exactly those that are active, have
\* capacityKg >= capacityRequired and have no confirmed or in-progress
\* reservation overlapping [start, start + estimateDuration(from, to)); each
\* is returned once.
C13_ExactlyTheAvailable ==
  \A p \in Procs :
    IsSearch(req[p])
    => /\ Range(req[p].availableVehicles)
            = {v \in Qualifying(req[p]) : FreeFor(v, req[p])}
       /\ Len(req[p].availableVehicles)
            = Cardinality(Range(req[p].availableVehicles))

\* C14: the sequence findAvailableVehicles returns is ordered by
\* non-decreasing capacityKg, and vehicles of equal capacity come in the
\* order in which they were added to the store.
C14_AscendingCapacity ==
  \A p \in Procs :
    IsSearch(req[p])
    => \A i, j \in 1..Len(req[p].availableVehicles) :
         i < j
         => LET vi == req[p].availableVehicles[i]
                vj == req[p].availableVehicles[j]
            IN /\ vehicles[vi].capacityKg <= vehicles[vj].capacityKg
               /\ vehicles[vi].capacityKg = vehicles[vj].capacityKg => vi < vj

\* C15: a search of valid input ends in success with an empty sequence, never
\* in an error, when no active vehicle has capacityKg >= capacityRequired and
\* when every such vehicle has a conflicting active reservation.
C15_EmptyIsSuccess ==
  \A p \in Procs :
    (/\ req[p].op = "findAvailableVehicles"
     /\ req[p].pc = "done"
     /\ req[p].error # "ValidationError"
     /\ \A v \in Qualifying(req[p]) : ~FreeFor(v, req[p]))
    => /\ req[p].code = 200
       /\ req[p].error = ""
       /\ req[p].availableVehicles = <<>>

\* Connection p takes a cancelBooking request for an existing booking.
CancelArrives(p) ==
  /\ Free(p)
  /\ Steps(p)
  /\ req'[p].op = "cancelBooking"
  /\ req'[p].id \in 1..Len(bookings)

\* C17: cancelBooking on a reservation whose status is in-progress, completed
\* or cancelled fails with InvalidState and leaves the bookings unchanged; a
\* successful cancellation leaves the reservation cancelled, so that
\* cancelling it again gives InvalidState.
C17_InvalidState ==
  [][\A p \in Procs :
       /\ (/\ CancelArrives(p)
           /\ bookings[req'[p].id].status \in {"in-progress", "completed", "cancelled"})
          => /\ req'[p].pc = "done"
             /\ req'[p].code = 400
             /\ req'[p].error = "InvalidState"
             /\ bookings' = bookings
       /\ (AtStage(p, "cancelBooking", "save") /\ Steps(p) /\ req'[p].code = 200)
          => bookings'[req[p].id].status = "cancelled"]_vars

\* The same reservation was cancelled twice: success, then InvalidState.
C17_Witness ==
  \E p, q \in Procs :
    /\ AtStage(p, "cancelBooking", "done") /\ req[p].code = 200
    /\ AtStage(q, "cancelBooking", "done") /\ req[q].error = "InvalidState"
    /\ req[p].id = req[q].id
    /\ bookings[req[p].id].status = "cancelled"

\* C18: cancelBooking on a confirmed reservation fails with TooLate and
\* leaves it confirmed when startTime - now is less than 1 hour (also when
\* startTime is past); when startTime - now is at least 1 hour, exactly 1 hour
\* included, it passes the check, and its save (startTime still in the
\* future) succeeds and sets the reservation, and nothing else, to cancelled.
C18_CancellationBuffer ==
  [][\A p \in Procs :
       /\ (CancelArrives(p) /\ bookings[req'[p].id].status = "confirmed")
          => LET b == bookings[req'[p].id]
             IN /\ (b.startTime - now < 1)
                   => /\ req'[p].pc = "done"
                      /\ req'[p].code = 400
                      /\ req'[p].error = "TooLate"
                      /\ bookings' = bookings
                /\ (b.startTime - now >= 1)
                   => (req'[p].pc = "save" /\ bookings' = bookings)
       /\ (/\ AtStage(p, "cancelBooking", "save")
           /\ Steps(p)
           /\ bookings[req[p].id].startTime > now)
          => /\ req'[p].pc = "done"
             /\ req'[p].code = 200
             /\ bookings' = [bookings EXCEPT ![req[p].id].status = "cancelled"]]_vars

\* One cancellation was refused as too late for a start already past, one has
\* succeeded at exactly one hour before the start.
C18_Witness ==
  \E p, q \in Procs :
    /\ AtStage(p, "cancelBooking", "done")
    /\ req[p].error = "TooLate"
    /\ req[p].hoursUntilStart < 0
    /\ AtStage(q, "cancelBooking", "done")
    /\ req[q].code = 200
    /\ req[q].hoursUntilStart = 1

\* C19: once the status of a reservation differs from confirmed, it is never
\* confirmed again.
C19_NeverBackToConfirmed ==
  [][\A i \in 1..Len(bookings) :
       bookings[i].status # "confirmed" => bookings'[i].status # "confirmed"]_vars

\* C20: every change of the status of a reservation follows one of the edges
\* confirmed -> in-progress, in-progress -> completed, confirmed -> cancelled.
StatusEdges ==
  {<<"confirmed", "in-progress">>, <<"in-progress", "completed">>,
   <<"confirmed", "cancelled">>}

C20_StatusEdges ==
  [][\A i \in 1..Len(bookings) :
       bookings'[i].status # bookings[i].status
       => <<bookings[i].status, bookings'[i].status>> \in StatusEdges]_vars

\* Connection p serves an updateBookingStatus request.
UpdateBookingStatusServed(p) ==
  Free(p) /\ Steps(p) /\ req'[p].op = "updateBookingStatus"

\* C21: updateBookingStatus with a target among the four statuses sets the
\* status of an existing reservation to the target whatever its current
\* status, and changes nothing else; with another target it answers 400 and
\* changes nothing; for a reservation that does not exist it answers 404
\* NotFound and changes nothing.
C21_UnconditionalWrite ==
  [][\A p \in Procs :
       UpdateBookingStatusServed(p)
       => LET id == req'[p].id
              status == req'[p].status
          IN /\ (status \in validStatuses /\ id \in 1..Len(bookings))
                => /\ req'[p].code = 200
                   /\ bookings' = [bookings EXCEPT ![id].status = status]
             /\ (status \notin validStatuses)
                => (req'[p].code = 400 /\ bookings' = bookings)
             /\ (status \in validStatuses /\ id \notin 1..Len(bookings))
                => /\ req'[p].code = 404
                   /\ req'[p].error = "NotFound"
                   /\ bookings' = bookings
             /\ vehicles' = vehicles]_vars

\* A reservation that cancelBooking had cancelled was set to confirmed.
C21_Witness ==
  \E p, q \in Procs :
    /\ req[p].op = "updateBookingStatus"
    /\ req[p].code = 200
    /\ req[p].status = "confirmed"
    /\ AtStage(q, "cancelBooking", "done")
    /\ req[q].code = 200
    /\ req[q].id = req[p].id
    /\ bookings[req[p].id].status = "confirmed"

WritingOps ==
  {"createBooking", "cancelBooking", "updateBookingStatus", "updateVehicleStatus"}

\* C22: a request of createBooking, cancelBooking, updateBookingStatus or
\* updateVehicleStatus that fails (NotFound, NotAvailable, Conflict,
\* InvalidState, TooLate, rejected input) changes neither store: the step that
\* answers the failure leaves vehicles and bookings as they are, and no
\* earlier step of a request writes, since the only step of a request that
\* changes a store is its last one, answering success.
C22_FailureWritesNothing ==
  [][\A p \in Procs :
       (Steps(p) /\ req'[p].op \in WritingOps)
       => /\ (req'[p].pc = "done" /\ req'[p].code >= 400)
             => (vehicles' = vehicles /\ bookings' = bookings)
          /\ (vehicles' # vehicles \/ bookings' # bookings)
             => (req'[p].pc = "done" /\ req'[p].code \in {200, 201})]_vars

\* With a reservation in the store, a createBooking request has ended in
\* Conflict and a cancelBooking request in TooLate.
C22_Witness ==
  \E p, q \in Procs :
    /\ AtStage(p, "createBooking", "done")
    /\ req[p].error = "Conflict"
    /\ AtStage(q, "cancelBooking", "done")
    /\ req[q].error = "TooLate"
    /\ Len(bookings) >= 1

\* C23: the vehicleId of a reservation never changes once it is created:
\* every step of every request leaves each existing reservation in the store
\* with the vehicleId it had.
C23_VehicleIdFixed ==
  [][\A i \in 1..Len(bookings) :
       /\ i <= Len(bookings')
       /\ bookings'[i].vehicleId = bookings[i].vehicleId]_vars

\* A reservation was cancelled and its vehicle retired, and a later
\* reservation was created on another vehicle.
C23_Witness ==
  /\ Len(bookings) = 2
  /\ bookings[1].status = "cancelled"
  /\ vehicles[bookings[1].vehicleId].status = "retired"
  /\ bookings[2].vehicleId # bookings[1].vehicleId

IsDuration(r) == r.op = "calculateRideDuration" /\ r.pc = "done"

\* The number a 6-digit code denotes.
CodeValue(c) ==
  100000 * c[1] + 10000 * c[2] + 1000 * c[3] + 100 * c[4] + 10 * c[5] + c[6]

\* |a - b| mod 24, at least 1.
DurationByRule(a, b) ==
  LET d == IF a >= b THEN a - b ELSE b - a
  IN IF d % 24 >= 1 THEN d % 24 ELSE 1

\* C28: for every pair of 6-digit codes of the range, the duration
\* calculateRideDuration returned is max(1, |from - to| mod 24), lies in
\* 1..23, is the one of the exchanged pair, and is 1 for equal codes.
C28_DurationFormula ==
  \A p \in Procs :
    (/\ IsDuration(req[p])
     /\ PincodePattern(req[p].fromPincode)
     /\ PincodePattern(req[p].toPincode))
    => LET r == req[p]
       IN /\ r.estimatedRideDurationHours
               = DurationByRule(CodeValue(r.fromPincode), CodeValue(r.toPincode))
          /\ r.estimatedRideDurationHours \in 1..23
          /\ calculateRideDuration(r.toPincode, r.fromPincode)
               = r.estimatedRideDurationHours
          /\ r.fromPincode = r.toPincode => r.estimatedRideDurationHours = 1

\* Two codes 24 apart gave the minimum of one hour.
C28_Witness ==
  \E p \in Procs :
    /\ IsDuration(req[p])
    /\ PincodePattern(req[p].fromPincode)
    /\ PincodePattern(req[p].toPincode)
    /\ CodeValue(req[p].toPincode) - CodeValue(req[p].fromPincode) = 24
    /\ req[p].estimatedRideDurationHours = 1

\* The string begins with no digit: parseInt gives NaN.
Unparsable(c) == c = <<>> \/ ~IsDigit(c[1])

\* C29: calculateRideDuration never fails: every call returns a number of
\* hours in 1..23, and when one of the two codes cannot be parsed as an
\* integer it returns the fallback of 2 hours.
C29_DurationFallback ==
  \A p \in Procs :
    IsDuration(req[p])
    => /\ req[p].estimatedRideDurationHours \in 1..23
       /\ req[p].error = ""
       /\ (Unparsable(req[p].fromPincode) \/ Unparsable(req[p].toPincode))
          => req[p].estimatedRideDurationHours = 2

\* A call with "invalid" and a 6-digit code returned 2.
C29_Witness ==
  \E p \in Procs :
    /\ IsDuration(req[p])
    /\ req[p].fromPincode = PinInvalid
    /\ PincodePattern(req[p].toPincode)
    /\ req[p].estimatedRideDurationHours = 2

\* C24: every reservation createBooking has stored has endTime > startTime,
\* endTime - startTime = estimatedRideDurationHours (in hours), and
\* estimatedRideDurationHours >= 1.
C24_WindowOfStored ==
  \A i \in 1..Len(bookings) :
    /\ bookings[i].endTime > bookings[i].startTime
    /\ bookings[i].endTime - bookings[i].startTime
         = bookings[i].estimatedRideDurationHours
    /\ bookings[i].estimatedRideDurationHours >= 1

\* A reservation between equal codes and one between codes 24 apart are
\* stored, each of one hour.
C24_Witness ==
  \E i, j \in 1..Len(bookings) :
    /\ bookings[i].toPincode = bookings[i].fromPincode
    /\ bookings[i].estimatedRideDurationHours = 1
    /\ CodeValue(bookings[j].toPincode) - CodeValue(bookings[j].fromPincode) = 24
    /\ bookings[j].endTime = bookings[j].startTime + 1

\* C30: every reservation createBooking has stored has totalCost > 0 and
\* totalCost >= 500 * estimatedRideDurationHours (totalCost is held in
\* hundredths).
C30_CostFloor ==
  \A i \in 1..Len(bookings) :
    /\ bookings[i].totalCost > 0
    /\ bookings[i].totalCost >= 500 * 100 * bookings[i].estimatedRideDurationHours

\* A reservation on a 500 kg vehicle over a distance below 100 costs exactly
\* 500 per hour, and one on a 5000 kg vehicle over the distance 150 costs more.
C30_Witness ==
  \E i, j \in 1..Len(bookings) :
    /\ vehicles[bookings[i].vehicleId].capacityKg = 500
    /\ bookings[i].toPincode = PinB
    /\ bookings[i].totalCost = 500 * 100 * bookings[i].estimatedRideDurationHours
    /\ vehicles[bookings[j].vehicleId].capacityKg = 5000
    /\ bookings[j].toPincode = PinFar
    /\ bookings[j].totalCost > 500 * 100 * bookings[j].estimatedRideDurationHours

\* C25: at the moment a createBooking request persists its reservation, the
\* status of its vehicle is active, also when updateVehicleStatus requests
\* interleave with the admission.
C25_ActiveAtCommit ==
  [][\A p \in Procs :
       (AtStage(p, "createBooking", "save") /\ Steps(p) /\ req'[p].code = 201)
       => vehicles[req[p].vehicleId].status = "active"]_vars

\* C26: cancelBooking never moves a reservation that is in-progress to
\* cancelled, also when an updateBookingStatus request interleaves between
\* its read of the status and its write.
C26_NoCancelOfInProgress ==
  [][\A p \in Procs :
       (AtStage(p, "cancelBooking", "save") /\ Steps(p) /\ req'[p].code = 200)
       => bookings[req[p].id].status # "in-progress"]_vars

\* C27: no operation removes a vehicle from the store, and once the status
\* of a vehicle is retired no operation changes it.
C27_RetiredTerminal ==
  [][/\ Len(vehicles') >= Len(vehicles)
     /\ \A v \in 1..Len(vehicles) :
          vehicles[v].status = "retired" => vehicles'[v].status = "retired"]_vars

\* Connection p takes a createBooking request.
CreateArrives(p) == Free(p) /\ Steps(p) /\ req'[p].op = "createBooking"

LiveInit ==
  /\ vehicles = <<[capacityKg |-> 5000, status |-> "active"],
                  [capacityKg |-> 5000, status |-> "active"]>>
  /\ bookings = <<BookingOn(1, 5000, <<1, 3>>)>>
  /\ now = 0
  /\ req = [p \in Procs |-> NoRequest]

LiveNext ==
  \/ Clock(LiveMaxTime)
  \/ CreateBookingArrives(Procs, {PinB}, {1}, LiveMaxBookings)
  \/ CreateBookingStep(Procs)
  \/ CancelBookingArrives({2})
  \/ CancelBookingStep({2})
  \/ UpdateBookingStatusRequest({2})
  \/ FindAvailableArrives({1}, {Cap5000}, {PinB}, {1})
  \/ FindAvailableStep({1})

LiveFairness ==
  \A p \in Procs :
    /\ WF_vars(CreateFindVehicle(p))
    /\ WF_vars(CreateFindOverlapping(p))
    /\ WF_vars(CreateSave(p))
    /\ WF_vars(CancelSave(p))
    /\ WF_vars(AvailableFindVehicles(p))
    /\ WF_vars(AvailableFindOverlapping(p))

SpecLive == LiveInit /\ [][LiveNext]_vars /\ LiveFairness

\* A request is being served on connection p.
InFlight(p) == req[p].pc \notin {"idle", "done"}

\* The outcomes of the four handlers: success, or a typed error.
Outcomes ==
  {<<200, "">>, <<201, "">>, <<400, "ValidationError">>, <<400, "NotAvailable">>,
   <<400, "InvalidState">>, <<400, "TooLate">>, <<400, "InvalidStatus">>,
   <<404, "NotFound">>, <<409, "Conflict">>}

\* The step of its request that connection p can take next, whatever the
\* other connections are doing.
CanStep(p) ==
  /\ AtStage(p, "createBooking", "findVehicle") => ENABLED CreateFindVehicle(p)
  /\ AtStage(p, "createBooking", "findOverlapping") => ENABLED CreateFindOverlapping(p)
  /\ AtStage(p, "createBooking", "save") => ENABLED CreateSave(p)
  /\ AtStage(p, "cancelBooking", "save") => ENABLED CancelSave(p)
  /\ AtStage(p, "findAvailableVehicles", "findVehicles")
       => ENABLED AvailableFindVehicles(p)
  /\ AtStage(p, "findAvailableVehicles", "findOverlapping")
       => ENABLED AvailableFindOverlapping(p)

\* A request goes forward only: every step of a request in flight changes
\* its stage or, in the loop of findAvailableVehicles, takes one candidate
\* off the list; the loop ends with the last candidate.
GoesForward(p) ==
  (InFlight(p) /\ Steps(p))
  => /\ req'[p].op = req[p].op
     /\ \/ req'[p].pc = "done"
        \/ <<req[p].pc, req'[p].pc>> \in
             {<<"findVehicle", "findOverlapping">>, <<"findOverlapping", "save">>,
              <<"findVehicles", "findOverlapping">>}
        \/ /\ AtStage(p, "findAvailableVehicles", "findOverlapping")
           /\ req'[p].pc = "findOverlapping"
           /\ req'[p].suitableVehicles = Tail(req[p].suitableVehicles)
           /\ req'[p].suitableVehicles # <<>>
     /\ (AtStage(p, "findAvailableVehicles", "findOverlapping")
         /\ Len(req[p].suitableVehicles) = 1)
        => req'[p].pc = "done"

\* C32: under weak fairness of the store operations, every request of
\* createBooking, cancelBooking, updateBookingStatus and
\* findAvailableVehicles that is being served is eventually answered, with one
\* outcome (success or a typed error) that stays its answer; a request in
\* flight can always take its next step whatever the other requests do, never
\* goes back to a stage it has left, and the loop of findAvailableVehicles
\* takes one candidate off its list at each conflict check.
C32_Terminates ==
  /\ \A p \in Procs : InFlight(p) ~> (req[p].pc = "done")
  /\ [](\A p \in Procs :
          /\ CanStep(p)
          /\ req[p].pc = "done" => <<req[p].code, req[p].error>> \in Outcomes)
  /\ [][\A p \in Procs :
          /\ GoesForward(p)
          /\ (req[p].pc = "done" /\ Steps(p)) => req'[p].op # "none"]_vars

\* A search has answered after checking both candidates while a createBooking
\* request was answered Conflict.
C32_Witness ==
  \E p, q \in Procs :
    /\ IsSearch(req[p])
    /\ Len(req[p].availableVehicles) = 1
    /\ AtStage(q, "createBooking", "done")
    /\ req[q].code = 409

(***************************************************************************)
(* Serial admissions.  Two active vehicles; only createBooking and         *)
(* cancelBooking requests are served.  A createBooking request is taken    *)
(* only when no request is in flight, and no request is taken while it is  *)
(* in flight, so that it runs from its arrival to its answer alone (the    *)
(* createBooking requests come on connection 1); the cancelBooking         *)
(* requests interleave with each other.                                    *)
(***************************************************************************)
SerialInit ==
  /\ vehicles = <<[capacityKg |-> 5000, status |-> "active"],
                  [capacityKg |-> 5000, status |-> "active"]>>
  /\ bookings = <<>>
  /\ now = 0
  /\ req = [p \in Procs |-> NoRequest]

SerialCreateArrives ==
  /\ \A p \in Procs : Free(p)
  /\ CreateBookingArrives({1}, {PinA, PinB}, 1..(SerialMaxTime + 1),
                          SerialMaxBookings)

SerialCancelArrives ==
  /\ Creating = {}
  /\ CancelBookingArrives(Procs)

SerialNext ==
  \/ Clock(SerialMaxTime)
  \/ SerialCreateArrives
  \/ CreateBookingStep({1})
  \/ SerialCancelArrives
  \/ CancelBookingStep(Procs)

SpecSerial == SerialInit /\ [][SerialNext]_vars

\* C33: when every createBooking request runs from its arrival to its answer
\* without another request in between, and only createBooking and
\* cancelBooking are served, every active reservation is, in every reachable
\* state, the only active reservation of its vehicle overlapping its window.
C33_SerialDisjoint ==
  \A i \in 1..Len(bookings) :
    IsActive(bookings[i])
    => ActiveOverlaps(bookings[i].vehicleId, bookings[i].startTime,
                      bookings[i].endTime) = {i}

\* A vehicle holds two active reservations back to back and a cancelled one
\* overlapping the second, and a createBooking request was answered Conflict.
C33_Witness ==
  \E i, j, k \in 1..Len(bookings) :
    /\ bookings[i].vehicleId = bookings[j].vehicleId
    /\ bookings[k].vehicleId = bookings[j].vehicleId
    /\ IsActive(bookings[i])
    /\ IsActive(bookings[j])
    /\ bookings[i].endTime = bookings[j].startTime
    /\ bookings[k].status = "cancelled"
    /\ WindowsOverlap(bookings[k].startTime, bookings[k].endTime,
                      bookings[j].startTime, bookings[j].endTime)

(***************************************************************************)
(* Cancel, re-book, update.  One active vehicle; createBooking and         *)
(* updateBookingStatus requests served one after the other on connection   *)
(* 1, cancelBooking requests on connection 2, while the clock runs.        *)
(***************************************************************************)
RebookInit ==
  /\ vehicles = <<[capacityKg |-> 5000, status |-> "active"]>>
  /\ bookings = <<>>
  /\ now = 0
  /\ req = [p \in Procs |-> NoRequest]

RebookNext ==
  \/ Clock(RebookMaxTime)
  \/ CreateBookingArrives({1}, {PinA, PinB}, 1..(RebookMaxTime + 1),
                          RebookMaxBookings)
  \/ CreateBookingStep({1})
  \/ CancelBookingArrives({2})
  \/ CancelBookingStep({2})
  \/ UpdateBookingStatusRequest({1})

SpecRebook == RebookInit /\ [][RebookNext]_vars

\* C34: an updateBookingStatus request that sets a cancelled or completed
\* reservation to confirmed or in-progress answers 200 and writes the status,
\* whatever the other reservations of the vehicle are, also when an active
\* one overlaps its window.
C34_NoConflictCheck ==
  [][\A p \in Procs :
       (/\ UpdateBookingStatusServed(p)
        /\ req'[p].id \in 1..Len(bookings)
        /\ bookings[req'[p].id].status \in {"cancelled", "completed"}
        /\ req'[p].status \in ActiveStatuses)
       => /\ req'[p].code = 200
          /\ bookings' = [bookings EXCEPT ![req'[p].id].status = req'[p].status]]_vars

\* A reservation that cancelBooking had cancelled was made active again by
\* an updateBookingStatus request, and its window overlaps a reservation
\* created after it on the same vehicle and active too.
C34_Witness ==
  \E p, q \in Procs : \E j \in 1..Len(bookings) :
    /\ AtStage(q, "cancelBooking", "done")
    /\ req[q].code = 200
    /\ req[q].id = req[p].id
    /\ req[p].op = "updateBookingStatus"
    /\ req[p].code = 200
    /\ req[p].status \in ActiveStatuses
    /\ req[p].id \in 1..Len(bookings)
    /\ req[p].id < j
    /\ bookings[j].vehicleId = bookings[req[p].id].vehicleId
    /\ IsActive(bookings[req[p].id])
    /\ IsActive(bookings[j])
    /\ WindowsOverlap(bookings[j].startTime, bookings[j].endTime,
                      bookings[req[p].id].startTime, bookings[req[p].id].endTime)

(***************************************************************************)
(* Search, then book, on a store at rest.  AgreeMaxVehicles vehicles,      *)
(* active or in maintenance, and one booking of window [2, 4) in any       *)
(* status on one of them; searches on connection 1 and createBooking       *)
(* requests on connection 2 while the clock runs.  The only write is the   *)
(* save of a createBooking request, after which no createBooking request   *)
(* is served.                                                              *)
(***************************************************************************)
AgreeInit ==
  /\ vehicles \in [1..AgreeMaxVehicles ->
                     [capacityKg : {5000}, status : {"active", "maintenance"}]]
  /\ \E v \in 1..AgreeMaxVehicles, status \in validStatuses :
       bookings = <<[BookingOn(v, 5000, <<2, 4>>) EXCEPT !.status = status]>>
  /\ now = 0
  /\ req = [p \in Procs |-> NoRequest]

\* A createBooking request arrives while the store is as it was at first.
AgreeCreateArrives ==
  /\ Len(bookings) = 1
  /\ \E vehicleId \in VehicleIdInputs, customerId \in CustomerIds,
        fromPincode \in FromPincodes, toPincode \in {PinA, PinB},
        startTime \in 1..AgreeMaxTime :
       BeginCreateBooking(2, vehicleId, customerId, fromPincode, toPincode, startTime)

AgreeNext ==
  \/ Clock(AgreeMaxTime)
  \/ FindAvailableArrives({1}, {Cap5000}, {PinA, PinB}, 1..AgreeMaxTime)
  \/ FindAvailableStep({1})
  \/ AgreeCreateArrives
  \/ CreateBookingStep({2})

SpecAgree == AgreeInit /\ [][AgreeNext]_vars

\* The createBooking request on p asks for a vehicle the search answered on
\* q has listed, with the route and the startTime of that search.
Follows(p, q) ==
  /\ IsSearch(req[q])
  /\ req[p].op = "createBooking"
  /\ req[p].vehicleId \in Range(req[q].availableVehicles)
  /\ req[p].fromPincode = req[q].fromPincode
  /\ req[p].toPincode = req[q].toPincode
  /\ req[p].startTime = req[q].startTime

\* The reservation p has stored has the window of the search of q.
StoredWindowOf(p, q) ==
  /\ req'[p].code = 201
  /\ Len(bookings') = Len(bookings) + 1
  /\ bookings'[Len(bookings')].vehicleId = req[p].vehicleId
  /\ bookings'[Len(bookings')].startTime = req[q].startTime
  /\ bookings'[Len(bookings')].endTime = req[q].endTime

\* C35 as claimed: when a search has listed vehicle v and no write has
\* happened since, a createBooking request for v with the route and the
\* startTime of the search passes the vehicle check and the conflict check,
\* and its save succeeds and stores the window of the search.
C35_AgreeAlways ==
  [][\A p, q \in Procs :
       (Follows(p, q) /\ Steps(p))
       => /\ req[p].pc = "findVehicle" => req'[p].pc = "findOverlapping"
          /\ req[p].pc = "findOverlapping" => req'[p].pc = "save"
          /\ req[p].pc = "save" => StoredWindowOf(p, q)]_vars

\* C35 (amended): when a search has listed vehicle v and no write has
\* happened since, a createBooking request for v with the route and the
\* startTime of the search passes validation while the startTime is not before
\* the clock, passes the vehicle check and the conflict check, and its save
\* succeeds and stores the window of the search provided the startTime is
\* still in the future at the save.
C35_AgreeWhileFuture ==
  /\ [](\A q \in Procs :
          (IsSearch(req[q]) /\ req[q].availableVehicles # <<>>
           /\ req[q].startTime >= now)
          => validateBooking(req[q].fromPincode, req[q].toPincode,
                             req[q].startTime))
  /\ [][\A p, q \in Procs :
          (Follows(p, q) /\ Steps(p))
          => /\ req[p].pc = "findVehicle" => req'[p].pc = "findOverlapping"
             /\ req[p].pc = "findOverlapping" => req'[p].pc = "save"
             /\ (req[p].pc = "save" /\ req[p].startTime > now)
                => StoredWindowOf(p, q)]_vars

\* A search listed a vehicle that holds an active reservation of window
\* [2, 4), for the window [1, 2), and a createBooking request has stored a
\* reservation of that vehicle with that window.
C35_Witness ==
  \E p, q \in Procs :
    /\ IsSearch(req[q])
    /\ AtStage(p, "createBooking", "done")
    /\ req[p].code = 201
    /\ req[p].id = 2
    /\ Len(bookings) = 2
    /\ bookings[2].vehicleId \in Range(req[q].availableVehicles)
    /\ bookings[2].startTime = req[q].startTime
    /\ bookings[2].endTime = req[q].endTime
    /\ bookings[1].vehicleId = bookings[2].vehicleId
    /\ IsActive(bookings[1])
    /\ bookings[2].endTime = bookings[1].startTime

(***************************************************************************)
(* The writes.  Two active vehicles, the first with a confirmed booking of *)
(* window [1, 3); createBooking and updateBookingStatus requests on        *)
(* connection 1, cancelBooking and updateVehicleStatus requests on         *)
(* connection 2.                                                           *)
(***************************************************************************)
FrameInit ==
  /\ vehicles = <<[capacityKg |-> 5000, status |-> "active"],
                  [capacityKg |-> 5000, status |-> "active"]>>
  /\ bookings = <<BookingOn(1, 5000, <<1, 3>>)>>
  /\ now = 0
  /\ req = [p \in Procs |-> NoRequest]

FrameNext ==
  \/ CreateBookingArrives({1}, {PinB}, {1}, FrameMaxBookings)
  \/ CreateBookingStep({1})
  \/ UpdateBookingStatusRequest({1})
  \/ CancelBookingArrives({2})
  \/ CancelBookingStep({2})
  \/ UpdateVehicleStatusRequest({2})

SpecFrame == FrameInit /\ [][FrameNext]_vars

\* bookings' is bookings but for the status of reservation id.
OnlyStatusOf(id) ==
  /\ id \in 1..Len(bookings)
  /\ bookings' = [bookings EXCEPT ![id].status = bookings'[id].status]

\* Connection p serves an updateVehicleStatus request.
UpdateVehicleStatusServed(p) ==
  Free(p) /\ Steps(p) /\ req'[p].op = "updateVehicleStatus"

PairBodies ==
  [vehicleId : 1..2, toPincode : {PinA, PinB}, startTime : 1..(PairMaxTime + 2)]

PairInit ==
  /\ \E status \in {"active", "maintenance"} :
       vehicles = <<[capacityKg |-> 5000, status |-> "active"],
                    [capacityKg |-> 5000, status |-> status]>>
  /\ \E status \in validStatuses :
       bookings = <<[BookingOn(1, 5000, <<2, 3>>) EXCEPT !.status = status]>>
  /\ now = 0
  /\ \E body \in [Procs -> PairBodies] :
       req = [p \in Procs |->
                [NoRequest EXCEPT !.op = "createBooking",
                                  !.pc = "findVehicle",
                                  !.vehicleId = body[p].vehicleId,
                                  !.customerId = "CUST001",
                                  !.fromPincode = PinA,
                                  !.toPincode = body[p].toPincode,
                                  !.startTime = body[p].startTime]]

PairNext ==
  \/ Clock(PairMaxTime)
  \/ CreateBookingStep(Procs)

SpecPair == PairInit /\ [][PairNext]_vars

\* The window the createBooking request r asks for.
WindowOf(r) ==
  <<r.startTime, r.startTime + calculateRideDuration(r.fromPincode, r.toPincode)>>

\* The request of q does not compete with the request r: it is for another
\* vehicle or for a window that does not overlap the window of r, whether it
\* is still in flight or has stored its reservation; a request that was
\* rejected has left nothing.
Compatible(r, q) ==
  IF req[q].op = "createBooking" /\ req[q].pc # "done"
    THEN \/ req[q].vehicleId # r.vehicleId
         \/ ~WindowsOverlap(WindowOf(req[q])[1], WindowOf(req[q])[2],
                            WindowOf(r)[1], WindowOf(r)[2])
    ELSE IF req[q].code = 201
      THEN \/ bookings[req[q].id].vehicleId # r.vehicleId
           \/ ~WindowsOverlap(bookings[req[q].id].startTime,
                              bookings[req[q].id].endTime,
                              WindowOf(r)[1], WindowOf(r)[2])
      ELSE TRUE

\* No active reservation that was in the store before the two requests
\* overlaps the window of r on its vehicle.
PreExistingFree(r) ==
  ~(/\ bookings[1].vehicleId = r.vehicleId
    /\ IsActive(bookings[1])
    /\ WindowsOverlap(bookings[1].startTime, bookings[1].endTime,
                      WindowOf(r)[1], WindowOf(r)[2]))

\* C37: of two createBooking requests running concurrently, each for an
\* active vehicle and a window that overlaps no active reservation that was
\* there before, and that are for different vehicles or for windows that do
\* not overlap, none is rejected because of the other: each passes the
\* vehicle check and the conflict check at whatever point of the other's
\* progress it runs them, and (startTime still in the future when it is
\* saved) each succeeds and stores its reservation.
C37_NoFalseRejection ==
  [][\A p \in Procs :
       (/\ req[p].op = "createBooking"
        /\ Steps(p)
        /\ vehicles[req[p].vehicleId].status = "active"
        /\ PreExistingFree(req[p])
        /\ \A q \in Procs \ {p} : Compatible(req[p], q))
       => /\ req[p].pc = "findVehicle" => req'[p].pc = "findOverlapping"
          /\ req[p].pc = "findOverlapping" => req'[p].pc = "save"
          /\ (req[p].pc = "save" /\ req[p].startTime > now)
             => /\ req'[p].code = 201
                /\ bookings'[Len(bookings')].vehicleId = req[p].vehicleId
                /\ bookings'[Len(bookings')].startTime = WindowOf(req[p])[1]
                /\ bookings'[Len(bookings')].endTime = WindowOf(req[p])[2]]_vars

\* Both requests have succeeded on the vehicle that held an active
\* reservation of window [2, 3): one before it and one after it.
C37_Witness ==
  /\ \A p \in Procs : AtStage(p, "createBooking", "done") /\ req[p].code = 201
  /\ Len(bookings) = 1 + NumProcs
  /\ IsActive(bookings[1])
  /\ \A i \in 1..Len(bookings) : bookings[i].vehicleId = 1
  /\ \E i, j \in 2..Len(bookings) :
       /\ bookings[i].endTime = bookings[1].startTime
       /\ bookings[j].startTime = bookings[1].endTime

(***************************************************************************)
(* The writes, and the conflict query called for either vehicle with the   *)
(* window of a booking in the store.                                       *)
(***************************************************************************)
KeepProbe ==
  \E vehicleId \in 1..Len(vehicles), i \in 1..Len(bookings) :
    CallFindOverlappingBookings(1, vehicleId, bookings[i].startTime,
                                bookings[i].endTime, UnknownId)

KeepNext ==
  \/ FrameNext
  \/ KeepProbe

SpecKeep == FrameInit /\ [][KeepNext]_vars

\* C38: no step removes a reservation: the collection never gets shorter and
\* every reservation in it stays, with everything but its status unchanged;
\* a successful cancelBooking leaves the collection at its length; an
\* updateVehicleStatus request, also one that moves the vehicle to
\* maintenance or retired, leaves every reservation as it is; and the
\* conflict query finds every active reservation of a vehicle on its own
\* window whatever the status of the vehicle.
C38_NeverRemoved ==
  /\ [][/\ Len(bookings') >= Len(bookings)
        /\ \A i \in 1..Len(bookings) :
             bookings'[i] = [bookings[i] EXCEPT !.status = bookings'[i].status]
        /\ \A p \in Procs :
             /\ (AtStage(p, "cancelBooking", "save") /\ Steps(p))
                => Len(bookings') = Len(bookings)
             /\ UpdateVehicleStatusServed(p) => bookings' = bookings
             /\ (Steps(p) /\ IsQuery(req'[p]))
                => req'[p].conflictingBookings =
                     Cardinality(ActiveOverlaps(req'[p].vehicleId,
                                                req'[p].startTime,
                                                req'[p].endTime))]_vars
  /\ [](\A i \in 1..Len(bookings) :
          IsActive(bookings[i])
          => i \in findOverlappingBookings(bookings[i].vehicleId,
                                           bookings[i].startTime,
                                           bookings[i].endTime, UnknownId))

\* The first vehicle was moved out of service; its reservation is still
\* active and the conflict query finds it, and a reservation that was
\* cancelled is still in the store.
C38_Witness ==
  \E p, q \in Procs :
    /\ req[q].op = "updateVehicleStatus"
    /\ req[q].code = 200
    /\ vehicles[1].status \in {"maintenance", "retired"}
    /\ IsActive(bookings[1])
    /\ bookings[1].vehicleId = 1
    /\ IsQuery(req[p])
    /\ req[p].vehicleId = 1
    /\ req[p].conflictingBookings
         = Cardinality(ActiveOverlaps(1, req[p].startTime, req[p].endTime))
    /\ req[p].conflictingBookings >= 1
    /\ Len(bookings) = 2
    /\ bookings[2].status = "cancelled"

====
